---- MODULE Spec2Model ----
(***************************************************************************)
(* cnotes: conversation-to-commit annotation engine.                       *)
(*                                                                         *)
(* Text is modelled byte for byte: a string is a sequence of one-character *)
(* strings.  The annotation store is git notes: per notes ref, a map from  *)
(* commit hash to the stored record.                                       *)
(***************************************************************************)
EXTENDS Integers, Sequences, FiniteSets, TLC

VARIABLES
    \* ---- redaction filter (sanitizeText on its own) ----
    text,        \* input handed to sanitizeText
    sanitized,   \* result of sanitizeText, <<>> before the call
    textPc,      \* "in" before the call, "out" after, "again" after the second
    redone,      \* sanitizeText applied to two sanitized parts put together
    \* ---- the settings file the hooks are installed in ----
    settings,    \* content of settings.json
    lastOp,      \* the last command run on it, the one before, how many were run
    \* ---- repository, shared by every process ----
    store,       \* git notes: [ref -> [commit hash -> record]]
    configFile,  \* content of .claude/notes.json
    \* ---- one hook invocation (one process) per element of Procs ----
    pc,          \* position of the invocation
    hookIn,      \* the triggering event it parsed (NoInput before)
    decision,    \* decision written to stdout: "none", "approve", "block"
    commitHash,  \* hash extracted from the tool output
    outcome,     \* why the invocation ended, "" while it runs
    issued,      \* what it asked of the store, the repository and the transcripts
    \* ---- the backup and restore commands ----
    backup,         \* content of the backup file
    fresh,          \* the file was written by the backup command of this run
    storeAtBackup,  \* the store as that backup command saw it
    rsPc,           \* position of the restore command
    rsTodo,         \* backup entries the restore loop has not visited yet
    rsCur,          \* entry that passed both checks and is about to be added
    restored,       \* counter `restored` of RestoreNotesFromBackup
    skipped,        \* counter `skipped` of RestoreNotesFromBackup
    rsTried,        \* commits the restore command issued an add for
    rsWrote,        \* commits whose add by the restore command succeeded
    \* ---- extraction and excerpt on their own ----
    trDir,       \* the transcript directory handed to ExtractContextSince
    trSession,   \* its sessionID argument
    trSince,     \* its since argument
    trGot,       \* its result [err, ctx]
    trCfg,       \* configuration of the extractor that compiles the excerpt
    trOut,       \* result of CreateExcerpt [panic, text]
    trTools,     \* toolsUsed collected from the context
    trPc,        \* "input", "extracted", "compiled"
    \* ---- the parsers of tool output and of the configuration file ----
    psIn,        \* git output or content of .claude/notes.json
    psOut,       \* what the parser returned
    psPc,        \* "input", "hash", "config"
    \* ---- standard input of one hook invocation, read with a timeout ----
    stdinData,   \* what the caller writes to the pipe before closing it
    stdinSent,   \* number of chunks of it written so far
    stdinEnd,    \* "open", "eof" (closed by the caller) or "broken"
    rdCh,        \* the result channel of the reading goroutine: "empty", "full"
    rdPc         \* runHook: "spawned", "waiting" (in select), "returned"

settingsVars == <<settings, lastOp>>
\* what no hook invocation, parser or notes command touches
textVars == <<text, sanitized, textPc, redone, settingsVars>>
repoVars == <<store, configFile>>
hookVars == <<pc, hookIn, decision, commitHash, outcome, issued>>
restoreVars == <<backup, fresh, storeAtBackup, rsPc, rsTodo, rsCur,
                 restored, skipped, rsTried, rsWrote>>
stdinVars == <<stdinData, stdinSent, stdinEnd, rdCh, rdPc>>
funVars == <<trDir, trSession, trSince, trGot, trCfg, trOut, trTools, trPc, psIn, psOut, psPc,
             stdinVars>>

(***************************************************************************)
(* Characters and strings                                                  *)
(***************************************************************************)
UpperChars == {"A","B","C","D","E","F","G","H","I","J","K","L","M",
               "N","O","P","Q","R","S","T","U","V","W","X","Y","Z"}
LowerChars == {"a","b","c","d","e","f","g","h","i","j","k","l","m",
               "n","o","p","q","r","s","t","u","v","w","x","y","z"}
DigitChars == {"0","1","2","3","4","5","6","7","8","9"}

\* \s of Go's regexp (RE2): [\t\n\f\r ]
IsSpace(c) == c \in {" ", "\n", "\t", "\r", "\f"}

\* [A-Za-z0-9+/]
IsBase64Char(c) == c \in UpperChars \cup LowerChars \cup DigitChars \cup {"+", "/"}

\* (?i): case folding of one ASCII letter
ToLower(c) ==
    CASE c = "A" -> "a" [] c = "B" -> "b" [] c = "C" -> "c" [] c = "D" -> "d"
      [] c = "E" -> "e" [] c = "F" -> "f" [] c = "G" -> "g" [] c = "H" -> "h"
      [] c = "I" -> "i" [] c = "J" -> "j" [] c = "K" -> "k" [] c = "L" -> "l"
      [] c = "M" -> "m" [] c = "N" -> "n" [] c = "O" -> "o" [] c = "P" -> "p"
      [] c = "Q" -> "q" [] c = "R" -> "r" [] c = "S" -> "s" [] c = "T" -> "t"
      [] c = "U" -> "u" [] c = "V" -> "v" [] c = "W" -> "w" [] c = "X" -> "x"
      [] c = "Y" -> "y" [] c = "Z" -> "z" [] OTHER -> c

\* s[i..] starts with the literal lit (i is 1-based)
HasPrefixAt(s, i, lit) ==
    /\ i + Len(lit) - 1 <= Len(s)
    /\ \A k \in 1..Len(lit) : s[i + k - 1] = lit[k]

\* the same, ignoring ASCII case
HasPrefixFoldAt(s, i, lit) ==
    /\ i + Len(lit) - 1 <= Len(s)
    /\ \A k \in 1..Len(lit) : ToLower(s[i + k - 1]) = ToLower(lit[k])

\* strings.Contains
Contains(s, sub) == \E i \in 1..(Len(s) + 1) : HasPrefixAt(s, i, sub)

\* first index >= i at which s holds a whitespace character, Len(s)+1 if none:
\* the end of the greedy run [^\s\n]+ started at i
RECURSIVE NonSpaceRunEnd(_, _)
NonSpaceRunEnd(s, i) ==
    IF i > Len(s) \/ IsSpace(s[i]) THEN i ELSE NonSpaceRunEnd(s, i + 1)

\* end of the greedy run [:\s]* started at i
RECURSIVE ColonSpaceRunEnd(_, _)
ColonSpaceRunEnd(s, i) ==
    IF i > Len(s) \/ ~(s[i] = ":" \/ IsSpace(s[i])) THEN i
    ELSE ColonSpaceRunEnd(s, i + 1)

\* end of the greedy run [A-Za-z0-9+/]* started at i
RECURSIVE Base64RunEnd(_, _)
Base64RunEnd(s, i) ==
    IF i > Len(s) \/ ~IsBase64Char(s[i]) THEN i ELSE Base64RunEnd(s, i + 1)

\* end of the greedy run [A-Z ]* started at i
RECURSIVE UpperSpaceRunEnd(_, _)
UpperSpaceRunEnd(s, i) ==
    IF i > Len(s) \/ ~(s[i] \in UpperChars \/ s[i] = " ") THEN i
    ELSE UpperSpaceRunEnd(s, i + 1)

(***************************************************************************)
(* Redaction filter: the four sensitive patterns and sanitizeText          *)
(***************************************************************************)
Placeholder == <<"[","R","E","D","A","C","T","E","D","]">>

\* minimum length of a base64-looking run, `{40,}`
Base64MinRun == 40

KwPassword == <<"p","a","s","s","w","o","r","d">>
KwToken    == <<"t","o","k","e","n">>
KwKey      == <<"k","e","y">>
KwSecret   == <<"s","e","c","r","e","t">>
KwApi      == <<"a","p","i">>
PemBegin   == <<"-","-","-","-","-","B","E","G","I","N"," ">>
PemDashes  == <<"-","-","-","-","-">>

\* Match of the tail `[:\s]*[^\s\n]+` started at i: the index after the match,
\* 0 when there is none.  The first factor is greedy; when it runs to the end
\* of the text the matcher backtracks to the last ':' of the run, which the
\* second factor then takes.
RECURSIVE LastColonBefore(_, _, _)
LastColonBefore(s, lo, hi) ==
    IF hi < lo THEN 0
    ELSE IF s[hi] = ":" THEN hi ELSE LastColonBefore(s, lo, hi - 1)

ValueTailEnd(s, i) ==
    LET r == ColonSpaceRunEnd(s, i) IN
    IF r <= Len(s) THEN NonSpaceRunEnd(s, r)
    ELSE LET c == LastColonBefore(s, i, Len(s)) IN
         IF c = 0 THEN 0 ELSE NonSpaceRunEnd(s, c)

\* (?i)(password|token|key|secret)[:\s]*[^\s\n]+
MatchKeyValue(s, i) ==
    LET kw == IF HasPrefixFoldAt(s, i, KwPassword) THEN Len(KwPassword)
              ELSE IF HasPrefixFoldAt(s, i, KwToken) THEN Len(KwToken)
              ELSE IF HasPrefixFoldAt(s, i, KwKey) THEN Len(KwKey)
              ELSE IF HasPrefixFoldAt(s, i, KwSecret) THEN Len(KwSecret)
              ELSE 0
    IN IF kw = 0 THEN 0 ELSE ValueTailEnd(s, i + kw)

\* (?i)(api[_-]?key)[:\s]*[^\s\n]+
MatchApiKey(s, i) ==
    IF ~HasPrefixFoldAt(s, i, KwApi) THEN 0
    ELSE LET j == i + Len(KwApi)
             k == IF j <= Len(s) /\ s[j] \in {"_", "-"}
                     /\ HasPrefixFoldAt(s, j + 1, KwKey)
                  THEN j + 1
                  ELSE j
         IN IF HasPrefixFoldAt(s, k, KwKey)
            THEN ValueTailEnd(s, k + Len(KwKey))
            ELSE 0

\* -----BEGIN [A-Z ]+-----
MatchPemHeader(s, i) ==
    IF ~HasPrefixAt(s, i, PemBegin) THEN 0
    ELSE LET j == i + Len(PemBegin)
             r == UpperSpaceRunEnd(s, j)
         IN IF r > j /\ HasPrefixAt(s, r, PemDashes) THEN r + Len(PemDashes)
            ELSE 0

\* [A-Za-z0-9+/]{40,}={0,2}
MatchBase64(s, i) ==
    LET r == Base64RunEnd(s, i) IN
    IF r - i < Base64MinRun THEN 0
    ELSE IF r <= Len(s) /\ s[r] = "=" THEN
             IF r + 1 <= Len(s) /\ s[r + 1] = "=" THEN r + 2 ELSE r + 1
         ELSE r

\* sensitivePatterns, in the order NewContextExtractor lists them
NumPatterns == 4

MatchPattern(k, s, i) ==
    CASE k = 1 -> MatchKeyValue(s, i)
      [] k = 2 -> MatchApiKey(s, i)
      [] k = 3 -> MatchPemHeader(s, i)
      [] OTHER -> MatchBase64(s, i)

\* a replacement that stops after the first match (regexp.ReplaceAllString
\* mistaken for a replace-once)
RECURSIVE ReplaceFirstFrom(_, _, _)
ReplaceFirstFrom(k, s, i) ==
    IF i > Len(s) THEN <<>>
    ELSE LET e == MatchPattern(k, s, i) IN
         IF e > i THEN Placeholder \o SubSeq(s, e, Len(s))
         ELSE <<s[i]>> \o ReplaceFirstFrom(k, s, i + 1)

\* regexp.ReplaceAllString(text, "[REDACTED]") for pattern k: leftmost,
\* non-overlapping matches, scanning from i
RECURSIVE ReplaceAllFrom(_, _, _)
ReplaceAllFrom(k, s, i) ==
    IF i > Len(s) THEN <<>>
    ELSE LET e == MatchPattern(k, s, i) IN
         IF e > i THEN Placeholder \o ReplaceAllFrom(k, s, e)
         ELSE <<s[i]>> \o ReplaceAllFrom(k, s, i + 1)

ReplaceAll(k, s) == ReplaceAllFrom(k, s, 1)

RECURSIVE SanitizeFrom(_, _)
SanitizeFrom(k, s) ==
    IF k > NumPatterns THEN s ELSE SanitizeFrom(k + 1, ReplaceAll(k, s))

\* ContextExtractor.sanitizeText
sanitizeText(s) == SanitizeFrom(1, s)

(***************************************************************************)
(* More of package strings                                                 *)
(***************************************************************************)
HasPrefix(s, lit) == HasPrefixAt(s, 1, lit)

\* strings.TrimPrefix
TrimPrefix(s, lit) ==
    IF HasPrefix(s, lit) THEN SubSeq(s, Len(lit) + 1, Len(s)) ELSE s

\* strings.TrimSpace
RECURSIVE TrimLeft(_)
TrimLeft(s) ==
    IF s # <<>> /\ IsSpace(s[1]) THEN TrimLeft(Tail(s)) ELSE s

RECURSIVE TrimRight(_)
TrimRight(s) ==
    IF s # <<>> /\ IsSpace(s[Len(s)]) THEN TrimRight(SubSeq(s, 1, Len(s) - 1))
    ELSE s

TrimSpace(s) == TrimRight(TrimLeft(s))

\* strings.Split(s, sep) for a one-character separator: always at least one
\* field, empty fields kept
RECURSIVE SplitFrom(_, _, _, _)
SplitFrom(s, sep, i, cur) ==
    IF i > Len(s) THEN <<cur>>
    ELSE IF s[i] = sep THEN <<cur>> \o SplitFrom(s, sep, i + 1, <<>>)
    ELSE SplitFrom(s, sep, i + 1, Append(cur, s[i]))

Split(s, sep) == SplitFrom(s, sep, 1, <<>>)

\* strings.Join
RECURSIVE Join(_, _)
Join(parts, sep) ==
    IF parts = <<>> THEN <<>>
    ELSE IF Len(parts) = 1 THEN parts[1]
    ELSE parts[1] \o sep \o Join(Tail(parts), sep)

(***************************************************************************)
(* Configuration: .claude/notes.json                                       *)
(***************************************************************************)
DefaultRef == "claude-conversations"
CustomRef  == "team-notes"
Refs == {DefaultRef, CustomRef}

\* DefaultNotesConfig: MaxExcerptLength
DefaultMaxExcerptLength == 5000

\* the default markers are 4-byte UTF-8 emoji
DefaultUserEmoji      == <<"xF0","x9F","x91","xA4">>
DefaultAssistantEmoji == <<"xF0","x9F","xA4","x96">>

\* DefaultNotesConfig: MaxPrompts
DefaultMaxPrompts == 2

DefaultNotesConfig ==
    [ Enabled |-> TRUE, MaxExcerptLength |-> DefaultMaxExcerptLength,
      MaxPrompts |-> DefaultMaxPrompts,
      NotesRef |-> DefaultRef,
      UserEmoji |-> DefaultUserEmoji, AssistantEmoji |-> DefaultAssistantEmoji ]

\* A configuration file is "missing", "malformed", or a JSON object: keys are
\* the keys it sets, the other fields their values.
ConfigObjectWith(keys, enabled, maxLen, maxPrompts, ref) ==
    [ kind |-> "object", keys |-> keys, enabled |-> enabled,
      max_excerpt_length |-> maxLen, max_prompts |-> maxPrompts, notes_ref |-> ref ]

\* an object setting enabled, max_excerpt_length and notes_ref
ConfigObject(enabled, maxLen, ref) ==
    ConfigObjectWith({"enabled", "max_excerpt_length", "notes_ref"}, enabled, maxLen, 0, ref)

MissingConfig   == [kind |-> "missing"]
MalformedConfig == [kind |-> "malformed"]

\* json.Unmarshal into a fresh NotesConfig: a key the object does not set
\* leaves Go's zero value (false, 0, "")
Unmarshal(file) ==
    [ Enabled |-> IF "enabled" \in file.keys THEN file.enabled ELSE FALSE,
      MaxExcerptLength |-> IF "max_excerpt_length" \in file.keys
                           THEN file.max_excerpt_length ELSE 0,
      MaxPrompts |-> IF "max_prompts" \in file.keys THEN file.max_prompts ELSE 0,
      NotesRef |-> IF "notes_ref" \in file.keys THEN file.notes_ref ELSE "" ]

LoadNotesConfig(file) ==
    IF file.kind \in {"missing", "malformed"} THEN DefaultNotesConfig
    ELSE LET config == Unmarshal(file) IN
         [ Enabled |-> config.Enabled,
           MaxExcerptLength |-> IF config.MaxExcerptLength <= 0
                                THEN DefaultMaxExcerptLength
                                ELSE config.MaxExcerptLength,
           MaxPrompts |-> IF config.MaxPrompts <= 0 THEN DefaultMaxPrompts
                          ELSE config.MaxPrompts,
           NotesRef |-> IF config.NotesRef = "" THEN DefaultRef ELSE config.NotesRef,
           UserEmoji |-> DefaultUserEmoji,
           AssistantEmoji |-> DefaultAssistantEmoji ]

(***************************************************************************)
(* Annotation store: git notes through the GitExecutor                     *)
(***************************************************************************)
\* commit objects of the repository
Objects == { <<"c","1">>, <<"c","2">> }

NoNote  == [kind |-> "none"]      \* no note for the object under the ref
Garbage == [kind |-> "garbage"]   \* a note whose text is not a JSON ConversationNote

\* the record of id under ref; an id that names no object has none
RecordOf(st, ref, id) == IF id \in Objects THEN st[ref][id] ELSE NoNote

\* a check that finds every commit, gone or not
AlwaysThere(id) == TRUE

\* `git cat-file -e id`
GitCatFile(id) == id \in Objects

\* `git notes --ref ref show id`: fails when there is no note
GitNotesShow(st, ref, id) ==
    LET r == RecordOf(st, ref, id) IN
    IF r = NoNote THEN [ok |-> FALSE, out |-> NoNote] ELSE [ok |-> TRUE, out |-> r]

\* `git notes add -f`: an existing note is no obstacle
GitNotesAddForce(st, ref, id, up) ==
    up /\ id \in Objects

\* `git notes --ref ref add -m data id` (no -f): refuses an id that names no
\* object and an object that already has a note; `up` is FALSE when git itself
\* fails (lock held, disk full, ...)
GitNotesAddOk(st, ref, id, up) ==
    up /\ id \in Objects /\ st[ref][id] = NoNote

\* NotesManager.SetNotesRef applied to NewNotesManager's default
SetNotesRef(ref) == IF ref # "" THEN ref ELSE DefaultRef

\* a read that hands out whatever text the note holds, decoded or not
GetAnyNote(st, ref, id) ==
    [note |-> GitNotesShow(st, ref, id).out, err |-> FALSE]

\* NotesManager.GetConversationNote: [note, err]; note is NoNote for Go's nil
GetConversationNote(st, ref, id) ==
    LET sh == GitNotesShow(st, ref, id) IN
    IF ~sh.ok THEN [note |-> NoNote, err |-> FALSE]
    ELSE IF sh.out = Garbage THEN [note |-> NoNote, err |-> TRUE]
    ELSE [note |-> sh.out, err |-> FALSE]

\* an existence check that never finds a note
NeverHasNote(st, ref, id) == FALSE

\* NotesManager.HasConversationNote
HasConversationNote(st, ref, id) == GetConversationNote(st, ref, id).note # NoNote

\* an add that reports the refusal of an existing note and writes all the same
AddConversationNoteForce(st, ref, id, note, up) ==
    [ err |-> ~GitNotesAddOk(st, ref, id, up),
      store |-> IF up /\ id \in Objects THEN [st EXCEPT ![ref][id] = note] ELSE st ]

\* NotesManager.AddConversationNote: [err, store]
AddConversationNote(st, ref, id, note, up) ==
    IF GitNotesAddOk(st, ref, id, up)
    THEN [err |-> FALSE, store |-> [st EXCEPT ![ref][id] = note]]
    ELSE [err |-> TRUE, store |-> st]

\* `git notes --ref ref list`: the annotated objects
GitNotesList(st, ref) == { id \in Objects : st[ref][id] # NoNote }

(***************************************************************************)
(* Commit detection                                                        *)
(***************************************************************************)
GitCommitLit == <<"g","i","t"," ","c","o","m","m","i","t">>
CommitLit    == <<"c","o","m","m","i","t"," ">>

\* isGitCommitCommand (cmd/root.go) and notes.IsGitCommitCommand: every pattern
\* of the longer list contains "git commit"
isGitCommitCommand(command) == Contains(TrimSpace(command), GitCommitLit)

\* the bracketed form "[branch hash] message" of one trimmed line: whether
\* the line returns from the loop, and with what
BracketForm(line) ==
    IF HasPrefix(line, <<"[">>) /\ Contains(line, <<"]">>)
    THEN LET beforeBracket == TrimSpace(TrimPrefix(Split(line, "]")[1], <<"[">>))
             hashParts == Split(beforeBracket, " ")
         IN IF Len(hashParts) > 1
            THEN [found |-> TRUE, hash |-> hashParts[2]]
            ELSE [found |-> FALSE, hash |-> <<>>]
    ELSE [found |-> FALSE, hash |-> <<>>]

\* extractCommitHash (cmd/root.go): the first line with a bracketed form
RECURSIVE extractFromLines(_)
extractFromLines(lines) ==
    IF lines = <<>> THEN <<>>
    ELSE LET b == BracketForm(TrimSpace(lines[1])) IN
         IF b.found THEN b.hash ELSE extractFromLines(Tail(lines))

extractCommitHash(output) == extractFromLines(Split(output, "\n"))

\* notes.ExtractCommitHashFromOutput: per line, the bracketed form, else the
\* "commit <hash>" form
RECURSIVE ExtractFromLinesWithFallback(_)
ExtractFromLinesWithFallback(lines) ==
    IF lines = <<>> THEN <<>>
    ELSE LET line == TrimSpace(lines[1])
             b == BracketForm(line)
         IN IF b.found THEN b.hash
            ELSE IF HasPrefix(line, CommitLit) THEN Split(line, " ")[2]
            ELSE ExtractFromLinesWithFallback(Tail(lines))

ExtractCommitHashFromOutput(output) ==
    ExtractFromLinesWithFallback(Split(output, "\n"))

\* buildCommitContext (cmd/root.go)
RECURSIVE ResultLine(_)
ResultLine(lines) ==
    IF lines = <<>> THEN <<>>
    ELSE LET line == TrimSpace(lines[1]) IN
         IF line # <<>> /\ Contains(line, <<"[">>) /\ Contains(line, <<"]">>)
         THEN <<<<"R","e","s","u","l","t",":"," ">> \o line>>
         ELSE ResultLine(Tail(lines))

buildCommitContext(command, output) ==
    Join(<<<<"G","i","t"," ","c","o","m","m","a","n","d",":"," ">> \o command>>
         \o ResultLine(Split(output, "\n")), <<"\n">>)

\* buildCommitContext (handlers/gitcommit.go): besides the result line, the
\* lines before it that are not branch status, until three parts are collected
OnBranchLit   == <<"O","n"," ","b","r","a","n","c","h">>
YourBranchLit == <<"Y","o","u","r"," ","b","r","a","n","c","h">>

RECURSIVE ContextParts(_, _)
ContextParts(lines, parts) ==
    IF lines = <<>> THEN parts
    ELSE LET line == TrimSpace(lines[1]) IN
         IF line = <<>> THEN ContextParts(Tail(lines), parts)
         ELSE IF Contains(line, <<"[">>) /\ Contains(line, <<"]">>)
         THEN Append(parts, <<"R","e","s","u","l","t",":"," ">> \o line)
         ELSE IF ~HasPrefix(line, OnBranchLit) /\ ~HasPrefix(line, YourBranchLit)
         THEN LET more == Append(parts, <<"O","u","t","p","u","t",":"," ">> \o line) IN
              IF Len(more) >= 3 THEN more ELSE ContextParts(Tail(lines), more)
         ELSE ContextParts(Tail(lines), parts)

buildCommitContextOfHandler(command, output) ==
    Join(ContextParts(Split(output, "\n"),
                      <<<<"G","i","t"," ","c","o","m","m","a","n","d",":"," ">> \o command>>),
         <<"\n">>)

(***************************************************************************)
(* Transcript parsing and context aggregation                              *)
(***************************************************************************)
\* time.Time as seconds; the zero time is also what a missing or unparseable
\* timestamp decodes to
ZeroTime == 0

InterruptMarker ==
    <<"[","R","e","q","u","e","s","t"," ","i","n","t","e","r","r","u","p","t",
      "e","d"," ","b","y"," ","u","s","e","r">>

\* One line of a transcript, already through json.Unmarshal: valid is FALSE
\* for a line that is not JSON.  kind is "user" (string content or one text
\* block), "assistant" (one text block), "tool_use" (one tool_use block, content
\* being the primary argument chosen by the switch on the tool name) or
\* "tool_result" (content being stdout, else output).  A message with several
\* blocks is several such lines with one timestamp.
Entry(sid, ts, kind, tool, content) ==
    [ valid |-> TRUE, sessionId |-> sid, timestamp |-> ts, kind |-> kind,
      tool |-> tool, content |-> content ]

InvalidEntry ==
    [ valid |-> FALSE, sessionId |-> "", timestamp |-> ZeroTime, kind |-> "",
      tool |-> <<>>, content |-> <<>> ]

EmptyContext ==
    [ UserPrompts |-> <<>>, ClaudeResponses |-> <<>>, ToolInteractions |-> <<>>,
      Events |-> <<>> ]

ConversationEvent(ts, type, content, tool) ==
    [ Timestamp |-> ts, Type |-> type, Content |-> content, ToolName |-> tool ]

\* a time filter that also drops the lines without a usable timestamp
SkippedAlsoUntimed(e, sessionID, since) ==
    \/ ~e.valid
    \/ sessionID # "" /\ e.sessionId # "" /\ e.sessionId # sessionID
    \/ since # ZeroTime /\ e.timestamp < since

\* the session and time filters of parseTranscriptContent: the line is skipped
SkippedByFilters(e, sessionID, since) ==
    \/ ~e.valid
    \/ sessionID # "" /\ e.sessionId # "" /\ e.sessionId # sessionID
    \/ since # ZeroTime /\ e.timestamp # ZeroTime /\ e.timestamp < since

\* what one line adds to the context
AddEntry(ctx, e) ==
    CASE e.kind = "user" /\ e.content # <<>> /\ ~Contains(e.content, InterruptMarker) ->
            [ctx EXCEPT !.UserPrompts = Append(@, e.content),
                        !.Events = Append(@, ConversationEvent(e.timestamp, "user", e.content, <<>>))]
      [] e.kind = "assistant" /\ e.content # <<>> ->
            [ctx EXCEPT !.ClaudeResponses = Append(@, e.content),
                        !.Events = Append(@, ConversationEvent(e.timestamp, "assistant", e.content, <<>>))]
      [] e.kind = "tool_use" /\ e.content # <<>> ->
            [ctx EXCEPT !.ToolInteractions =
                            Append(@, [Tool |-> e.tool, Input |-> e.content, Output |-> <<>>]),
                        !.Events = Append(@, ConversationEvent(e.timestamp, "tool", e.content, e.tool))]
      [] e.kind = "tool_result" /\ e.content # <<>> ->
            [ctx EXCEPT !.Events =
                            Append(@, ConversationEvent(e.timestamp, "tool_result", e.content, e.tool))]
      [] OTHER -> ctx

RECURSIVE ParseFrom(_, _, _, _)
ParseFrom(entries, sessionID, since, ctx) ==
    IF entries = <<>> THEN ctx
    ELSE ParseFrom(Tail(entries), sessionID, since,
                   IF SkippedByFilters(entries[1], sessionID, since) THEN ctx
                   ELSE AddEntry(ctx, entries[1]))

\* ContextExtractor.parseTranscriptContent
parseTranscriptContent(entries, sessionID, since) ==
    ParseFrom(entries, sessionID, since, EmptyContext)

\* A transcript file: jsonl is whether its name ends in ".jsonl"; access is
\* "ok", "noopen" (os.Open fails) or "noread" (io.ReadAll fails).
TranscriptFile(jsonl, access, entries) ==
    [ jsonl |-> jsonl, access |-> access, entries |-> entries ]

\* ContextExtractor.extractFromSingleTranscript: [err, ctx]
extractFromSingleTranscript(file, sessionID, since) ==
    CASE file.access = "noopen" -> [err |-> FALSE, ctx |-> EmptyContext]
      [] file.access = "noread" -> [err |-> TRUE, ctx |-> EmptyContext]
      [] OTHER -> [err |-> FALSE,
                   ctx |-> parseTranscriptContent(file.entries, sessionID, since)]

MergeContext(a, b) ==
    [ UserPrompts |-> a.UserPrompts \o b.UserPrompts,
      ClaudeResponses |-> a.ClaudeResponses \o b.ClaudeResponses,
      ToolInteractions |-> a.ToolInteractions \o b.ToolInteractions,
      Events |-> a.Events \o b.Events ]

\* the loop over the directory's files: every .jsonl file is parsed with an
\* empty session id; a file that cannot be read is skipped
RECURSIVE MergeFiles(_, _, _)
MergeFiles(files, since, acc) ==
    IF files = <<>> THEN acc
    ELSE LET f == files[1]
             r == extractFromSingleTranscript(f, "", since)
         IN MergeFiles(Tail(files), since,
                       IF ~f.jsonl \/ r.err THEN acc ELSE MergeContext(acc, r.ctx))

\* ContextExtractor.filterSensitiveContent: prompts, responses and tool
\* interactions are sanitized; Events is not touched
filterSensitiveContent(ctx) ==
    [ ctx EXCEPT
        !.UserPrompts = [i \in 1..Len(@) |-> sanitizeText(@[i])],
        !.ClaudeResponses = [i \in 1..Len(@) |-> sanitizeText(@[i])],
        !.ToolInteractions =
            [i \in 1..Len(@) |-> [@[i] EXCEPT !.Input = sanitizeText(@),
                                              !.Output = sanitizeText(@)]] ]

\* The transcript directory as the file system shows it: dirOk is whether
\* os.ReadDir succeeds, files are its entries in name order.  transcriptPath
\* is the index of the triggering event's transcript in files, 0 for "".
\* ContextExtractor.ExtractContextSince: [err, ctx]
ExtractContextSince(dir, transcriptPath, sessionID, since) ==
    IF transcriptPath = 0 THEN [err |-> FALSE, ctx |-> EmptyContext]
    ELSE IF ~dir.dirOk
         THEN extractFromSingleTranscript(dir.files[transcriptPath], sessionID, since)
         ELSE [err |-> FALSE,
               ctx |-> filterSensitiveContent(MergeFiles(dir.files, since, EmptyContext))]

(***************************************************************************)
(* Excerpt compiler                                                        *)
(***************************************************************************)
UserLineCap  == 200
UserLineKeep == 197
ToolLineCap  == 150
ToolLineKeep == 147
ResultMaxLines == 3
Ellipsis == <<".", ".", ".">>

\* NewContextExtractor: cfg is NilConfig or a NotesConfig
NilConfig == [nil |-> TRUE]

MaxExcerptLengthOf(cfg) ==
    IF cfg # NilConfig /\ cfg.MaxExcerptLength > 0 THEN cfg.MaxExcerptLength
    ELSE DefaultMaxExcerptLength

\* no sort at all: the events stay in the order of the input
InputOrder(events) == {events}

\* sort.Slice by Timestamp.Before: some permutation of the events without a
\* later event before an earlier one.  sort.Slice is not stable, so events
\* with equal timestamps may come out in any order.
SortOutcomes(events) ==
    LET n == Len(events)
        perms == { f \in [1..n -> 1..n] : \A i, j \in 1..n : i # j => f[i] # f[j] }
    IN { [i \in 1..n |-> events[f[i]]] :
            f \in { g \in perms : \A i, j \in 1..n :
                        i < j => ~(events[g[j]].Timestamp < events[g[i]].Timestamp) } }

CapContent(content, cap, keep) ==
    IF Len(content) > cap THEN SubSeq(content, 1, keep) \o Ellipsis ELSE content

\* one event as one line of the excerpt; <<>> for a type the switch ignores
RenderEvent(cfg, ev) ==
    CASE ev.Type = "user" ->
            (IF cfg # NilConfig /\ cfg.UserEmoji # <<>> THEN cfg.UserEmoji ELSE DefaultUserEmoji)
            \o <<" ","U","s","e","r",":"," ">>
            \o CapContent(ev.Content, UserLineCap, UserLineKeep)
      [] ev.Type = "assistant" ->
            (IF cfg # NilConfig /\ cfg.AssistantEmoji # <<>> THEN cfg.AssistantEmoji
             ELSE DefaultAssistantEmoji)
            \o <<" ","C","l","a","u","d","e",":"," ">>
            \o CapContent(ev.Content, UserLineCap, UserLineKeep)
      [] ev.Type = "tool" ->
            <<"T","o","o","l"," ","(">> \o ev.ToolName \o <<")",":"," ">>
            \o CapContent(ev.Content, ToolLineCap, ToolLineKeep)
      [] ev.Type = "tool_result" ->
            <<"R","e","s","u","l","t",":"," ">>
            \o (LET lines == Split(ev.Content, "\n") IN
                IF Len(lines) > ResultMaxLines
                THEN Join(SubSeq(lines, 1, ResultMaxLines), <<"\n">>)
                     \o <<"\n","[",".",".",".","]">>
                ELSE CapContent(ev.Content, ToolLineCap, ToolLineKeep))
      [] OTHER -> <<>>

RECURSIVE RenderAll(_, _)
RenderAll(cfg, events) ==
    IF events = <<>> THEN <<>>
    ELSE LET line == RenderEvent(cfg, events[1]) IN
         (IF line # <<>> THEN <<line>> ELSE <<>>) \o RenderAll(cfg, Tail(events))

\* the final truncation: excerpt[:max-3] panics when max-3 is negative
TruncateExcerpt(excerpt, max) ==
    IF Len(excerpt) > max
    THEN IF max - Len(Ellipsis) < 0 THEN [panic |-> TRUE, text |-> <<>>]
         ELSE [panic |-> FALSE, text |-> SubSeq(excerpt, 1, max - Len(Ellipsis)) \o Ellipsis]
    ELSE [panic |-> FALSE, text |-> excerpt]

\* ContextExtractor.CreateExcerpt: the results the sort allows, each
\* [panic, text]
CreateExcerpt(cfg, ctx) ==
    { TruncateExcerpt(Join(RenderAll(cfg, sorted), <<"\n","\n">>), MaxExcerptLengthOf(cfg)) :
        sorted \in SortOutcomes(ctx.Events) }

\* a loop that appends every tool it meets
RECURSIVE CollectEveryTool(_, _)
CollectEveryTool(interactions, toolsUsed) ==
    IF interactions = <<>> THEN toolsUsed
    ELSE CollectEveryTool(Tail(interactions), Append(toolsUsed, interactions[1].Tool))

\* the tools-used loop of processGitCommit
RECURSIVE CollectTools(_, _)
CollectTools(interactions, toolsUsed) ==
    IF interactions = <<>> THEN toolsUsed
    ELSE LET t == interactions[1].Tool IN
         CollectTools(Tail(interactions),
                      IF t # <<>> /\ \A i \in 1..Len(toolsUsed) : toolsUsed[i] # t
                      THEN Append(toolsUsed, t) ELSE toolsUsed)

BashTool == <<"B","a","s","h">>

(***************************************************************************)
(* Hook invocations: runHook / processGitCommit (cmd/root.go) and the      *)
(* registered handler AttachConversationToCommit (handlers/gitcommit.go)   *)
(***************************************************************************)
\* number of hook invocations that may run concurrently
NumProcs == 2
Procs == 1..NumProcs

NoInput == [HookEventName |-> "none"]
NoHash == <<>>

\* The triggering event as decoded from stdin.  inputOk: tool_input decodes
\* as a BashToolInput; respPresent: tool_response is not empty; respOk: it
\* decodes as an object, stdout being its "stdout" (when it does not, stdout
\* holds the raw bytes).
HookEvent(eventName, toolName, inputOk, command, respPresent, respOk, stdout, path) ==
    [ HookEventName |-> eventName, ToolName |-> toolName, inputOk |-> inputOk,
      Command |-> command, respPresent |-> respPresent, respOk |-> respOk,
      stdout |-> stdout, SessionID |-> "s1", TranscriptPath |-> path,
      handler |-> "" ]   \* which entry point decoded it, set on entry

CmdCommit == GitCommitLit \o <<" ","-","m"," ","x">>
CmdList   == <<"l","s">>

OutCommit(hash) == <<"[","m"," ">> \o hash \o <<"]"," ","x">>
OutRootCommit   == <<"[","m"," ","(","r",")"," ","c","1","]"," ","x">>
OutLogForm      == <<"c","o","m","m","i","t"," ","c","2">>
OutNothing      == <<"c","l","e","a","n">>

HookEvents ==
    { HookEvent("PreToolUse", "Bash", TRUE, CmdCommit, FALSE, FALSE, <<>>, 1),
      HookEvent("PostToolUse", "Write", TRUE, <<>>, TRUE, TRUE, <<>>, 1),
      HookEvent("PostToolUse", "Bash", FALSE, <<>>, TRUE, TRUE, <<>>, 1),
      HookEvent("PostToolUse", "Bash", TRUE, CmdList, TRUE, TRUE, OutNothing, 1),
      HookEvent("PostToolUse", "Bash", TRUE, CmdCommit, FALSE, FALSE, <<>>, 1),
      HookEvent("PostToolUse", "Bash", TRUE, CmdCommit, TRUE, FALSE, OutCommit(<<"c","1">>), 1),
      HookEvent("PostToolUse", "Bash", TRUE, CmdCommit, TRUE, TRUE, OutNothing, 1),
      HookEvent("PostToolUse", "Bash", TRUE, CmdCommit, TRUE, TRUE, OutLogForm, 1),
      HookEvent("PostToolUse", "Bash", TRUE, CmdCommit, TRUE, TRUE, OutRootCommit, 1),
      HookEvent("PostToolUse", "Bash", TRUE, CmdCommit, TRUE, TRUE, OutCommit(<<"c","1">>), 1),
      HookEvent("PostToolUse", "Bash", TRUE, CmdCommit, TRUE, TRUE, OutCommit(<<"c","1">>), 0),
      HookEvent("PostToolUse", "Bash", TRUE, CmdCommit, TRUE, TRUE, OutCommit(<<"c","2">>), 1) }

\* what reading stdin can give besides an event
StdinFailures == {"timeout", "readerr", "empty", "malformed"}

\* transcripts on disk when the hook runs
SecretText == <<"k","e","y","=","1">>

SessionFile(access) ==
    TranscriptFile(TRUE, access,
        << Entry("s1", 100, "user", <<>>, <<"h","i">>),
           Entry("s1", 200, "tool_use", BashTool, SecretText) >>)

OtherFile ==
    TranscriptFile(TRUE, "ok", << Entry("s2", 150, "assistant", <<>>, <<"o","k">>) >>)

TranscriptDirs ==
    { [dirOk |-> TRUE,  files |-> <<SessionFile("ok"), OtherFile>>],
      [dirOk |-> FALSE, files |-> <<SessionFile("ok"), OtherFile>>],
      [dirOk |-> FALSE, files |-> <<SessionFile("noread"), OtherFile>>] }

\* `git log -1 --format=%cI HEAD~1`: the commit time, or ZeroTime when the
\* command fails or its output does not parse
PrevCommitTimes == {ZeroTime, 210}

\* the buffer subtracted from the previous commit's time, in seconds
SinceBuffer == 60

\* getLastCommitTimeForSession
getLastCommitTimeForSession(prev) ==
    IF prev = ZeroTime THEN ZeroTime ELSE prev - SinceBuffer

ConversationNote(sid, excerpt, tools, commitContext, writer) ==
    [ SessionID |-> sid, ConversationExcerpt |-> excerpt, ToolsUsed |-> tools,
      CommitContext |-> commitContext,
      writer |-> writer ]   \* stands for Timestamp: who wrote it, and when

\* the git output processGitCommit works on
GitOutputOf(in) ==
    IF in.respPresent /\ in.respOk THEN in.stdout ELSE <<>>

\* the git output AttachConversationToCommit works on: the raw response when it
\* does not decode
GitOutputOfHandler(in) ==
    IF in.respPresent THEN in.stdout ELSE <<>>

\* an ending that returns the error of a failed add to the caller instead of
\* logging it: no decision is written
FinishOrFail(p, d, why) ==
    /\ pc' = [pc EXCEPT ![p] = IF why = "put-failed" THEN "error" ELSE "done"]
    /\ decision' = [decision EXCEPT ![p] = IF why = "put-failed" THEN "none" ELSE d]
    /\ outcome' = [outcome EXCEPT ![p] = why]
    /\ hookIn' = [hookIn EXCEPT ![p] = NoInput]

\* the invocation ends: the decision is written and the process exits with
\* status 0; why it ended is kept in outcome, its locals are gone
Finish(p, d, why) ==
    /\ pc' = [pc EXCEPT ![p] = "done"]
    /\ decision' = [decision EXCEPT ![p] = d]
    /\ outcome' = [outcome EXCEPT ![p] = why]
    /\ hookIn' = [hookIn EXCEPT ![p] = NoInput]

\* the filter that forgets the configuration switch
FilterIgnoresConfig(isPostBash, in, cfg, gitOutput, hash) ==
    CASE ~isPostBash -> "not-post-bash"
      [] ~in.inputOk -> "undecodable-input"
      [] ~isGitCommitCommand(in.Command) -> "not-a-commit"
      [] gitOutput = <<>> -> "no-git-output"
      [] hash = NoHash -> "no-commit-hash"
      [] OTHER -> ""

\* the first filter of the steps before the existence check that ends the
\* invocation, "" when none does
FilterOutcome(isPostBash, in, cfg, gitOutput, hash) ==
    CASE ~isPostBash -> "not-post-bash"
      [] ~in.inputOk -> "undecodable-input"
      [] ~isGitCommitCommand(in.Command) -> "not-a-commit"
      [] ~cfg.Enabled -> "disabled"
      [] gitOutput = <<>> -> "no-git-output"
      [] hash = NoHash -> "no-commit-hash"
      [] OTHER -> ""

\* configuration files: none, notes disabled, a custom ref, a tiny excerpt cap
ConfigFiles ==
    { MissingConfig,
      ConfigObject(FALSE, 0, ""),
      ConfigObject(TRUE, 0, CustomRef),
      ConfigObject(TRUE, 2, "") }

\* The steps of runHook and processGitCommit between decoding the event and
\* the existence check, for every configuration and event: the commit hash
\* and the filter that ends the invocation.
RunHookSteps ==
    [ cf \in ConfigFiles |-> [ in \in HookEvents |->
        LET hash == extractCommitHash(GitOutputOf(in)) IN
        [ hash |-> hash,
          why |-> FilterOutcome(in.HookEventName = "PostToolUse" /\ in.ToolName = "Bash",
                                in, LoadNotesConfig(cf), GitOutputOf(in), hash) ] ] ]

\* the same steps of AttachConversationToCommit
HandlerSteps ==
    [ cf \in ConfigFiles |-> [ in \in HookEvents |->
        LET hash == ExtractCommitHashFromOutput(GitOutputOfHandler(in)) IN
        [ hash |-> hash,
          why |-> FilterOutcome(TRUE, in, LoadNotesConfig(cf), GitOutputOfHandler(in), hash) ] ] ]

\* the notes ref both handlers set on their NotesManager
HookRef == SetNotesRef(LoadNotesConfig(configFile).NotesRef)

\* the existence check whose answer is not looked at
CheckIgnored(p, in, hash) ==
    /\ issued' = [issued EXCEPT ![p] = Append(@, "show")]
    /\ pc' = [pc EXCEPT ![p] = "attach"]
    /\ hookIn' = [hookIn EXCEPT ![p] = in]
    /\ commitHash' = [commitHash EXCEPT ![p] = hash]
    /\ UNCHANGED <<decision, outcome>>

\* the event passed the filters: the dedup check HasConversationNote, the one
\* access to the store of this step
CheckExists(p, in, hash) ==
    /\ issued' = [issued EXCEPT ![p] = Append(@, "show")]
    /\ IF HasConversationNote(store, HookRef, hash)
       THEN /\ Finish(p, "approve", "already-annotated")
            /\ commitHash' = [commitHash EXCEPT ![p] = hash]
       ELSE /\ pc' = [pc EXCEPT ![p] = "attach"]
            /\ hookIn' = [hookIn EXCEPT ![p] = in]
            /\ commitHash' = [commitHash EXCEPT ![p] = hash]
            /\ UNCHANGED <<decision, outcome>>

\* runHook through the existence check of processGitCommit: read stdin,
\* decode, filter, load the configuration, extract the commit hash, ask the
\* store
FailRead(p, f) ==
    /\ pc' = [pc EXCEPT ![p] = "error"]
    /\ outcome' = [outcome EXCEPT ![p] = f]
    /\ UNCHANGED <<hookIn, decision, commitHash, issued>>

ProcessEvent(p, in) ==
    LET step == RunHookSteps[configFile][in] IN
    IF step.why = ""
    THEN CheckExists(p, [in EXCEPT !.handler = "runHook"], step.hash)
    ELSE /\ Finish(p, "approve", step.why)
         /\ UNCHANGED <<commitHash, issued>>

RunHook(p) ==
    /\ pc[p] = "start"
    /\ UNCHANGED <<repoVars, textVars, funVars, restoreVars>>
    /\ \/ \E f \in StdinFailures : FailRead(p, f)
       \/ \E in \in HookEvents : ProcessEvent(p, in)

\* AttachConversationToCommit through the existence check; the dispatcher
\* calls it for PostToolUse events of the Bash tool only
RunHandler(p) ==
    /\ pc[p] = "start"
    /\ UNCHANGED <<repoVars, textVars, funVars, restoreVars>>
    /\ \E in \in HookEvents :
         LET step == HandlerSteps[configFile][in] IN
         /\ in.HookEventName = "PostToolUse"
         /\ in.ToolName = "Bash"
         /\ IF step.why = ""
            THEN CheckExists(p, [in EXCEPT !.handler = "handler"], step.hash)
            ELSE /\ Finish(p, "approve", step.why)
                 /\ UNCHANGED <<commitHash, issued>>

\* Window, extraction, excerpt and tools-used of processGitCommit (viaRunHook)
\* and of AttachConversationToCommit, which extracts with no cutoff and an
\* extractor built without configuration: [err, excerpts, tools], excerpts
\* being the results CreateExcerpt may give.
Compile(cf, viaRunHook, path, dir, prev) ==
    LET cfg == IF viaRunHook THEN LoadNotesConfig(cf) ELSE NilConfig
        since == IF viaRunHook THEN getLastCommitTimeForSession(prev) ELSE ZeroTime
        got == ExtractContextSince(dir, path, "s1", since)
    IN [ err |-> got.err,
         excerpts |-> IF got.err THEN {} ELSE CreateExcerpt(cfg, got.ctx),
         tools |-> CollectTools(got.ctx.ToolInteractions, <<BashTool>>) ]

\* Compile for every configuration, entry point, transcript path, directory
\* and previous commit time
CompileSteps ==
    [ cf \in ConfigFiles |-> [ viaRunHook \in BOOLEAN |-> [ path \in {0, 1} |->
        [ dir \in TranscriptDirs |-> [ prev \in PrevCommitTimes |->
            Compile(cf, viaRunHook, path, dir, prev) ] ] ] ] ]

\* The rest of the invocation, after the existence check answered no: window,
\* extraction, excerpt, tools-used, the note, AddConversationNote.  The files
\* and `git log` it reads are the environment's; `git notes add` is its one
\* access to the store.  An extraction error and an error of the add are
\* logged, and the hook approves.
AttachNote(p) ==
    /\ pc[p] = "attach"
    /\ UNCHANGED <<configFile, commitHash, textVars, funVars, restoreVars>>
    /\ \E dir \in TranscriptDirs, prev \in PrevCommitTimes :
         LET in == hookIn[p]
             viaRunHook == in.handler = "runHook"
             got == CompileSteps[configFile][viaRunHook][in.TranscriptPath][dir][prev]
             commitContext == IF viaRunHook
                              THEN buildCommitContext(in.Command, GitOutputOf(in))
                              ELSE buildCommitContextOfHandler(in.Command, GitOutputOfHandler(in))
             reads == (IF viaRunHook THEN <<"log">> ELSE <<>>)
                      \o (IF in.TranscriptPath # 0 THEN <<"transcripts">> ELSE <<>>)
         IN IF got.err
            THEN /\ Finish(p, "approve", "extract-failed")
                 /\ issued' = [issued EXCEPT ![p] = @ \o reads]
                 /\ UNCHANGED store
            ELSE \E excerpt \in got.excerpts :
                   IF excerpt.panic
                   THEN /\ pc' = [pc EXCEPT ![p] = "panic"]
                        /\ outcome' = [outcome EXCEPT ![p] = "panic"]
                        /\ hookIn' = [hookIn EXCEPT ![p] = NoInput]
                        /\ issued' = [issued EXCEPT ![p] = @ \o reads]
                        /\ UNCHANGED <<decision, store>>
                   ELSE \E up \in BOOLEAN :
                          LET note == ConversationNote(in.SessionID, excerpt.text, got.tools,
                                                       commitContext, p)
                              r == AddConversationNote(store, HookRef, commitHash[p], note, up)
                          IN /\ store' = r.store
                             /\ issued' = [issued EXCEPT ![p] = @ \o reads \o <<"add">>]
                             /\ Finish(p, "approve", IF r.err THEN "put-failed" ELSE "written")

(***************************************************************************)
(* Initial states and specifications                                       *)
(***************************************************************************)
EmptyStore == [ref \in Refs |-> [id \in Objects |-> NoNote]]

\* a note of an earlier session
OldNote == ConversationNote("s0", <<"o","l","d">>, <<BashTool>>, <<>>, 0)

\* the store before the first action: empty, or holding an earlier note, or a
\* note that is not JSON
InitStores ==
    { EmptyStore,
      [EmptyStore EXCEPT ![DefaultRef][<<"c","2">>] = OldNote],
      [EmptyStore EXCEPT ![DefaultRef][<<"c","1">>] = Garbage,
                         ![CustomRef][<<"c","1">>] = Garbage] }

SettingsOff ==
    /\ settings = [kind |-> "missing"]
    /\ lastOp = [op |-> "off", bin |-> "", after |-> "", n |-> 0]

NotRedone == [cut |-> 0, parts |-> <<>>, out |-> <<>>]

TextOff ==
    /\ text = <<>>
    /\ sanitized = <<>>
    /\ textPc = "off"
    /\ redone = NotRedone
    /\ SettingsOff

HookInit ==
    /\ store \in InitStores
    /\ configFile \in ConfigFiles
    /\ pc = [p \in Procs |-> "start"]
    /\ hookIn = [p \in Procs |-> NoInput]
    /\ decision = [p \in Procs |-> "none"]
    /\ commitHash = [p \in Procs |-> NoHash]
    /\ outcome = [p \in Procs |-> ""]
    /\ issued = [p \in Procs |-> <<>>]

HookOff ==
    /\ store = EmptyStore
    /\ configFile = MissingConfig
    /\ pc = [p \in Procs |-> "off"]
    /\ hookIn = [p \in Procs |-> NoInput]
    /\ decision = [p \in Procs |-> "none"]
    /\ commitHash = [p \in Procs |-> NoHash]
    /\ outcome = [p \in Procs |-> ""]
    /\ issued = [p \in Procs |-> <<>>]

\* the backup and restore commands are not run
RestoreOff ==
    /\ backup = [readable |-> FALSE, NotesRef |-> "", Notes |-> <<>>]
    /\ fresh = FALSE
    /\ storeAtBackup = EmptyStore
    /\ rsPc = "off"
    /\ rsTodo = {}
    /\ rsCur = NoHash
    /\ restored = 0
    /\ skipped = 0
    /\ rsTried = {}
    /\ rsWrote = {}

\* extraction and excerpt are not run on their own
TrOff ==
    /\ trDir = [dirOk |-> FALSE, files |-> <<>>]
    /\ trSession = ""
    /\ trSince = ZeroTime
    /\ trGot = [err |-> FALSE, ctx |-> EmptyContext]
    /\ trCfg = NilConfig
    /\ trOut = [panic |-> FALSE, text |-> <<>>]
    /\ trTools = <<>>
    /\ trPc = "off"

\* nor are the parsers
PsOff ==
    /\ psIn = [kind |-> "none"]
    /\ psOut = [kind |-> "none"]
    /\ psPc = "off"

\* standard input is not modelled on its own
StdinOff ==
    /\ stdinData = NoInput
    /\ stdinSent = 0
    /\ stdinEnd = "off"
    /\ rdCh = "empty"
    /\ rdPc = "off"

FunOff == TrOff /\ PsOff /\ StdinOff

vars == <<textVars, repoVars, hookVars, restoreVars, funVars>>

Init == HookInit /\ TextOff /\ RestoreOff /\ FunOff

Next ==
    \E p \in Procs :
        \/ RunHook(p)
        \/ RunHandler(p)
        \/ AttachNote(p)

Spec == Init /\ [][Next]_vars

\* some sensitive pattern matches the input at position i
MatchesAt(s, i) == \E k \in 1..NumPatterns : MatchPattern(k, s, i) > i
HasSensitiveMatch(s) == \E i \in 1..Len(s) : MatchesAt(s, i)

(***************************************************************************)
(* The backup and restore commands (cmd/notes.go, notes/backup.go), run     *)
(* next to one hook invocation.  Their NotesManager keeps the default ref.  *)
(***************************************************************************)
\* a commit a backup file can name that the repository no longer has
GoneCommit == <<"c","9">>

\* One line of the output of `git notes list`: "<note sha> <commit sha>" has
\* two fields, the commit being the second.
ListLine(fields, commit) == [fields |-> fields, commit |-> commit]

\* `git notes --ref ref list`: [ok, lines].  It fails when up is FALSE; with
\* junk, its output also holds a blank line, a line of one field and a line of
\* three fields.
GitNotesListOutput(st, ref, up, junk) ==
    [ ok |-> up,
      lines |-> IF ~up THEN {}
                ELSE { ListLine(2, id) : id \in GitNotesList(st, ref) }
                     \cup (IF junk
                           THEN { ListLine(0, NoHash), ListLine(1, NoHash),
                                  ListLine(3, GoneCommit) }
                           ELSE {}) ]

\* NotesManager.BackupAllNotes on that output: an empty backup when the
\* listing failed; else, of the lines of two fields, the commits whose note
\* is read and decodes, with their notes
BackupAllNotes(st, ref, out) ==
    LET listed == IF out.ok THEN { l.commit : l \in { x \in out.lines : x.fields = 2 } }
                  ELSE {}
        kept == { id \in listed :
                    LET got == GetConversationNote(st, ref, id) IN
                    ~got.err /\ got.note # NoNote }
    IN [ readable |-> TRUE, NotesRef |-> ref,
         Notes |-> [id \in kept |-> GetConversationNote(st, ref, id).note] ]

\* a note saved by an earlier backup
SavedNote == ConversationNote("s9", <<"s","a","v","e","d">>, <<BashTool>>, <<>>, 0)

\* backup files lying around before the commands run: none that can be read,
\* one naming a commit, one naming every commit and a commit that is gone
BackupFiles ==
    { [readable |-> FALSE, NotesRef |-> "", Notes |-> <<>>],
      [readable |-> TRUE, NotesRef |-> DefaultRef,
       Notes |-> [id \in {<<"c","1">>} |-> SavedNote]],
      [readable |-> TRUE, NotesRef |-> DefaultRef,
       Notes |-> [id \in Objects \cup {GoneCommit} |-> SavedNote]] }

\* stores the commands may find
RestoreStores ==
    InitStores \cup
    { [EmptyStore EXCEPT ![DefaultRef] = [id \in Objects |-> OldNote]],
      [EmptyStore EXCEPT ![DefaultRef] =
          [id \in Objects |-> IF id = <<"c","1">> THEN Garbage ELSE OldNote]] }

\* the ref of NewNotesManager, which the commands never change
CmdRef == DefaultRef

\* the backup command: BackupAllNotes, then SaveBackupToFile
BackupCmd ==
    /\ rsPc = "idle"
    /\ ~fresh
    /\ \E up, junk \in BOOLEAN :
         backup' = BackupAllNotes(store, CmdRef, GitNotesListOutput(store, CmdRef, up, junk))
    /\ fresh' = TRUE
    /\ storeAtBackup' = store
    /\ UNCHANGED <<rsPc, rsTodo, rsCur, restored, skipped, rsTried, rsWrote>>
    /\ UNCHANGED <<textVars, funVars, repoVars, hookVars>>

\* the restore command up to the loop: LoadBackupFromFile, whose error ends it
RestoreLoad ==
    /\ rsPc = "idle"
    /\ IF backup.readable
       THEN /\ rsPc' = "loop"
            /\ rsTodo' = DOMAIN backup.Notes
       ELSE /\ rsPc' = "load-failed"
            /\ UNCHANGED rsTodo
    /\ UNCHANGED <<backup, fresh, storeAtBackup, rsCur, restored, skipped, rsTried, rsWrote>>
    /\ UNCHANGED <<textVars, funVars, repoVars, hookVars>>

\* a loop that carries on after a failed add
AfterAddCarryOn(err) == "loop"

\* where the loop of RestoreNotesFromBackup goes after AddConversationNote
AfterAdd(err) == IF err THEN "failed" ELSE "loop"

\* one entry of the loop of RestoreNotesFromBackup, in the order the map
\* yields it: `git cat-file -e`, then HasConversationNote
RestoreCheck ==
    /\ rsPc = "loop"
    /\ \E id \in rsTodo :
         IF ~GitCatFile(id) \/ HasConversationNote(store, CmdRef, id)
         THEN /\ skipped' = skipped + 1
              /\ rsTodo' = rsTodo \ {id}
              /\ UNCHANGED <<rsPc, rsCur>>
         ELSE /\ rsCur' = id
              /\ rsPc' = "add"
              /\ UNCHANGED <<skipped, rsTodo>>
    /\ UNCHANGED <<backup, fresh, storeAtBackup, restored, rsTried, rsWrote>>
    /\ UNCHANGED <<textVars, funVars, repoVars, hookVars>>

\* the add of that entry: its error is returned at once, the loop is left
RestoreAdd ==
    /\ rsPc = "add"
    /\ \E up \in BOOLEAN :
         LET r == AddConversationNote(store, CmdRef, rsCur, backup.Notes[rsCur], up) IN
         /\ store' = r.store
         /\ rsTried' = rsTried \cup {rsCur}
         /\ rsPc' = AfterAdd(r.err)
         /\ rsTodo' = rsTodo \ {rsCur}
         /\ IF r.err
            THEN UNCHANGED <<restored, rsWrote>>
            ELSE /\ restored' = restored + 1
                 /\ rsWrote' = rsWrote \cup {rsCur}
    /\ rsCur' = NoHash
    /\ UNCHANGED <<backup, fresh, storeAtBackup, skipped>>
    /\ UNCHANGED <<textVars, funVars, configFile, hookVars>>

\* every entry was visited: the counts are printed, nil is returned
RestoreFinish ==
    /\ rsPc = "loop"
    /\ rsTodo = {}
    /\ rsPc' = "done"
    /\ UNCHANGED <<backup, fresh, storeAtBackup, rsTodo, rsCur, restored, skipped,
                   rsTried, rsWrote>>
    /\ UNCHANGED <<textVars, funVars, repoVars, hookVars>>

\* the one hook invocation that runs next to the commands
HookProc == CHOOSE p \in Procs : \A q \in Procs : p <= q

RestoreInit ==
    /\ TextOff
    /\ FunOff
    /\ store \in RestoreStores
    /\ configFile = MissingConfig
    /\ pc = [p \in Procs |-> IF p = HookProc THEN "start" ELSE "off"]
    /\ hookIn = [p \in Procs |-> NoInput]
    /\ decision = [p \in Procs |-> "none"]
    /\ commitHash = [p \in Procs |-> NoHash]
    /\ outcome = [p \in Procs |-> ""]
    /\ issued = [p \in Procs |-> <<>>]
    /\ backup \in BackupFiles
    /\ fresh = FALSE
    /\ storeAtBackup = EmptyStore
    /\ rsPc = "idle"
    /\ rsTodo = {}
    /\ rsCur = NoHash
    /\ restored = 0
    /\ skipped = 0
    /\ rsTried = {}
    /\ rsWrote = {}

RestoreNext ==
    \/ BackupCmd
    \/ RestoreLoad
    \/ RestoreCheck
    \/ RestoreAdd
    \/ RestoreFinish
    \/ RunHook(HookProc)
    \/ AttachNote(HookProc)

SpecRestore == RestoreInit /\ [][RestoreNext]_vars

(***************************************************************************)
(* Properties of the backup and restore commands                           *)
(***************************************************************************)
\* the commits the backup file names
BackupIds == DOMAIN backup.Notes

\* nobody but the restore command changed a note since the backup was taken
Untouched ==
    \A id \in Objects \ rsWrote : store[CmdRef][id] = storeAtBackup[CmdRef][id]

\* C7: the restore command issues an add only for a commit the backup names
\* and the repository has; a note it creates is the backup's, for a commit
\* that had none; a skipped entry changes nothing and the loop goes on, so a
\* finished restore has counted every entry.
C7_RestoreOnlyFillsGaps ==
    /\ [](rsTried \subseteq BackupIds \cap Objects)
    /\ [][\A id \in Objects :
            (rsTried' # rsTried /\ store'[CmdRef][id] # store[CmdRef][id]) =>
                /\ id \in BackupIds
                /\ store[CmdRef][id] = NoNote
                /\ store'[CmdRef][id] = backup.Notes[id]]_vars
    /\ [][skipped' # skipped =>
            /\ rsPc' = "loop"
            /\ store' = store
            /\ restored' = restored]_vars
    /\ [](rsPc = "done" => restored + skipped = Cardinality(BackupIds))

\* of a backup naming three commits one was gone, one had a note and one was
\* restored
C7_Witness ==
    /\ rsPc = "done"
    /\ GoneCommit \in BackupIds
    /\ restored = 1
    /\ skipped = 2
    /\ \E id \in Objects : id \notin rsWrote /\ store[CmdRef][id] = OldNote

\* C8: while nobody changes the store after the backup command wrote the
\* file, the restore command issues no add, restores nothing, leaves the
\* store as the backup saw it, and ends having skipped every entry.
C8_RestoreOfBackupIsNoOp ==
    (fresh /\ Untouched) =>
        /\ rsTried = {}
        /\ rsWrote = {}
        /\ restored = 0
        /\ store[CmdRef] = storeAtBackup[CmdRef]
        /\ rsPc \notin {"add", "failed", "load-failed"}
        /\ rsPc = "done" => skipped = Cardinality(BackupIds)

\* a backup of two notes was restored at once: both entries skipped
C8_Witness ==
    /\ fresh
    /\ Untouched
    /\ rsPc = "done"
    /\ Cardinality(BackupIds) = 2
    /\ skipped = 2
    /\ restored = 0

\* C9: the step in which an add of the restore command fails ends the command
\* with that error and changes no note; the command does nothing afterwards,
\* so the notes it restored before stay and the entries it did not visit are
\* not written.
C9_RestoreStopsAtFailedPut ==
    /\ [][(rsTried' # rsTried /\ rsWrote' = rsWrote) =>
            /\ rsPc' = "failed"
            /\ store' = store
            /\ restored' = restored]_vars
    /\ [][rsPc = "failed" => UNCHANGED restoreVars]_vars
    /\ [](rsPc = "failed" =>
            /\ \A id \in rsWrote : store[CmdRef][id] = backup.Notes[id]
            /\ rsTodo \cap rsTried = {})

\* the restore failed at its second add, with one entry restored and one not
\* visited
C9_Witness ==
    /\ rsPc = "failed"
    /\ rsWrote # {}
    /\ rsTodo # {}
    /\ \E id \in rsTried \ rsWrote : TRUE

(***************************************************************************)
(* Properties of the hook invocations                                      *)
(***************************************************************************)
\* the invocation of p is over: it wrote its decision, returned an error, or
\* crashed
Ended(p) == pc[p] \in {"done", "error", "panic"}

\* the event of p was read and parsed
Parsed(p) == pc[p] # "start" /\ outcome[p] \notin StdinFailures

\* the note of commit id under the ref of the hooks
Stored(id) == RecordOf(store, HookRef, id)

IsNote(r) == r # NoNote /\ r # Garbage

\* C1: every invocation whose event was read and parsed ends with the
\* decision "approve", whichever path it took.
C1_AlwaysApprove ==
    \A p \in Procs : (Ended(p) /\ Parsed(p)) => decision[p] = "approve"

\* C2: an invocation that starts after another one wrote the note of the same
\* commit under the same ref ends at the existence check: it approves, the
\* listed ids and the stored note are as they were.
C2_SecondRunWritesNothing ==
    [][\A p, q \in Procs :
          ( /\ pc[p] = "start" /\ pc'[p] # "start"
            /\ outcome[q] = "written"
            /\ commitHash'[p] = commitHash[q] ) =>
              /\ pc'[p] = "done"
              /\ outcome'[p] = "already-annotated"
              /\ decision'[p] = "approve"
              /\ GitNotesList(store', HookRef) = GitNotesList(store, HookRef)
              /\ store'[HookRef][commitHash[q]] = store[HookRef][commitHash[q]]]_vars

\* the second run found the note of the first
C2_Witness ==
    \E p, q \in Procs :
        /\ outcome[q] = "written"
        /\ outcome[p] = "already-annotated"
        /\ commitHash[p] = commitHash[q]
        /\ Stored(commitHash[q]).writer = q

\* C3: of the invocations for one commit at most one adds its note, and the
\* stored note stays the one of that invocation.
C3_AtMostOnce ==
    \A p \in Procs :
        outcome[p] = "written" =>
            /\ IsNote(Stored(commitHash[p]))
            /\ Stored(commitHash[p]).writer = p
            /\ \A q \in Procs :
                  (outcome[q] = "written" /\ commitHash[q] = commitHash[p]) => q = p

\* two invocations passed the existence check for the same commit; one has
\* added its note while the other is still between its check and its add
C3_Witness ==
    \E p, q \in Procs :
        /\ p # q
        /\ commitHash[p] = commitHash[q]
        /\ pc[p] = "attach"
        /\ outcome[q] = "written"
        /\ Stored(commitHash[q]).writer = q

\* C4: the step in which the add fails ends the invocation with "approve" and
\* without an error, and leaves the store as it was.
C4_PutFailureIsBenign ==
    [][\A p \in Procs :
          (outcome[p] # "put-failed" /\ outcome'[p] = "put-failed") =>
              /\ pc'[p] = "done"
              /\ decision'[p] = "approve"
              /\ store' = store]_vars

\* an add lost the race: the note of the other invocation is in the store
C4_Witness ==
    \E p, q \in Procs :
        /\ p # q
        /\ outcome[p] = "put-failed"
        /\ decision[p] = "approve"
        /\ outcome[q] = "written"
        /\ commitHash[p] = commitHash[q]
        /\ Stored(commitHash[p]).writer = q


\* C20: an invocation ends with an error only when the top-level read of the
\* triggering event failed; whatever fails later (transcript file or directory,
\* the query for the previous commit, a read of or a write to the store), it
\* ends successfully with "approve".
C20_OnlyEventReadEndsInError ==
    \A p \in Procs :
        Ended(p) =>
            IF outcome[p] \in StdinFailures
            THEN pc[p] = "error" /\ decision[p] = "none"
            ELSE pc[p] = "done" /\ decision[p] = "approve"
\* the endings of an invocation that is not about a commit to annotate
FilteredOut ==
    {"not-post-bash", "undecodable-input", "not-a-commit", "disabled",
     "no-git-output", "no-commit-hash"}

\* C24: an invocation whose event is not PostToolUse of Bash, whose command is
\* no commit, whose configuration is disabled or whose output gives no commit
\* hash ends with approve and has issued no read of the notes, no write of
\* the notes and no read of the transcripts; the step that ends it leaves the
\* notes as they were.
C24_FilteredOutTouchesNothing ==
    /\ [](\A p \in Procs :
            outcome[p] \in FilteredOut =>
                pc[p] = "done" /\ decision[p] = "approve" /\ issued[p] = <<>>)
    /\ [](~LoadNotesConfig(configFile).Enabled =>
            \A p \in Procs : issued[p] = <<>> /\ outcome[p] \in FilteredOut \cup StdinFailures \cup {""})
    /\ [][\A p \in Procs :
            (pc[p] = "start" /\ outcome'[p] \in FilteredOut) => store' = store]_vars

\* an invocation whose output held no commit hash has ended with approve
\* next to one that annotated its commit
C24_Witness ==
    \E p, q \in Procs :
        /\ outcome[p] = "no-commit-hash" /\ decision[p] = "approve" /\ issued[p] = <<>>
        /\ issued[q] # <<>> /\ issued[q][Len(issued[q])] = "add"

\* what one invocation can have asked for, in order: the existence check,
\* then the previous commit's time and the transcripts, then the add
IssueOrders ==
    {<<>>} \cup
    { <<"show">> \o r \o a :
        r \in {<<>>, <<"log">>, <<"transcripts">>, <<"log", "transcripts">>},
        a \in {<<>>, <<"add">>} }

AddIssued(ops) == ops # <<>> /\ ops[Len(ops)] = "add"

\* C29: the steps of one invocation run in one order and the add is issued
\* at most once: after the existence check of the same invocation answered
\* that the commit has no note, after extraction and compilation ended
\* without failure, and as the last operation of the invocation.
C29_AddOnceAfterCheckAndCompile ==
    /\ [](\A p \in Procs :
            /\ issued[p] \in IssueOrders
            /\ AddIssued(issued[p]) =>
                 pc[p] = "done" /\ outcome[p] \in {"written", "put-failed"})
    /\ [][\A p \in Procs :
            /\ (pc[p] = "start" /\ pc'[p] = "attach") =>
                 /\ issued'[p] = <<"show">>
                 /\ ~HasConversationNote(store, HookRef, commitHash'[p])
            /\ (~AddIssued(issued[p]) /\ AddIssued(issued'[p])) =>
                 pc[p] = "attach" /\ issued[p] = <<"show">>
            /\ AddIssued(issued[p]) =>
                 issued'[p] = issued[p] /\ pc'[p] = pc[p]]_vars

\* an invocation went through every step and wrote its note
C29_Witness ==
    \E p \in Procs :
        /\ issued[p] = <<"show", "log", "transcripts", "add">>
        /\ outcome[p] = "written"
        /\ store[HookRef][commitHash[p]] # NoNote

\* C30: a note an invocation wrote is in the namespace the notes commands
\* work on, whatever notes_ref is configured: `notes show` and the existence
\* check of `notes restore` find it, and `notes list` and `notes backup`
\* hold it.
C30_WrittenNoteVisibleToCommands ==
    \A p \in Procs :
        outcome[p] = "written" =>
            LET id == commitHash[p]
                listed == BackupAllNotes(store, CmdRef,
                                         GitNotesListOutput(store, CmdRef, TRUE, FALSE))
            IN /\ HookRef = CmdRef
               /\ HasConversationNote(store, CmdRef, id)
               /\ GetConversationNote(store, CmdRef, id).note = store[HookRef][id]
               /\ id \in DOMAIN listed.Notes

\* C5: no excerpt an invocation stored holds a match of a sensitive pattern.
C5_StoredExcerptsRedacted ==
    \A p \in Procs :
        outcome[p] = "written" =>
            ~HasSensitiveMatch(Stored(commitHash[p]).ConversationExcerpt)

\* C10: an add for an object that has a note returns an error and the store
\* unchanged, and no step changes a note that is there.
C10_PutNeverOverwrites ==
    /\ [](\A ref \in Refs, id \in Objects, up \in BOOLEAN :
            store[ref][id] # NoNote =>
                LET r == AddConversationNote(store, ref, id, OldNote, up) IN
                r.err /\ r.store = store)
    /\ [][\A ref \in Refs, id \in Objects :
            store[ref][id] # NoNote => store'[ref][id] = store[ref][id]]_vars

\* an add was refused because the object had a note, which is still there
C10_Witness ==
    \E p \in Procs :
        /\ outcome[p] = "put-failed"
        /\ Stored(commitHash[p]) # NoNote

(***************************************************************************)
(* The redaction filter on its own: sanitizeText applied to bounded inputs   *)
(***************************************************************************)
RECURSIVE Repeat(_, _)
Repeat(c, n) == IF n = 0 THEN <<>> ELSE <<c>> \o Repeat(c, n - 1)

\* building blocks of the inputs: keywords in both cases, separators, a value
\* character, a run one short of the base64 threshold, padding, PEM headers
TextPieces ==
    { KwKey, <<"T","o","k","e","n">>, <<"a","p","i","_">>,
      <<":">>, <<" ">>, <<"x">>, <<"#">>, <<"=">>,
      Repeat("A", Base64MinRun - 1),
      PemBegin \o <<"C","E","R","T">> \o PemDashes,
      PemBegin \o <<"R","S","A"," ","K","E","Y">> \o PemDashes }

\* largest number of pieces in one input
MaxPieces == 3

RECURSIVE PieceStrings(_)
PieceStrings(n) ==
    IF n = 0 THEN {<<>>}
    ELSE LET shorter == PieceStrings(n - 1) IN
         shorter \cup {p \o t : p \in TextPieces, t \in shorter}

SanitizeInputs == PieceStrings(MaxPieces)

TextInit ==
    /\ text \in SanitizeInputs
    /\ sanitized = <<>>
    /\ textPc = "in"
    /\ redone = NotRedone
    /\ SettingsOff
    /\ HookOff
    /\ RestoreOff
    /\ FunOff

\* one call of ContextExtractor.sanitizeText
Sanitize ==
    /\ textPc = "in"
    /\ sanitized' = sanitizeText(text)
    /\ textPc' = "out"
    /\ UNCHANGED <<text, redone, settingsVars, funVars, repoVars, hookVars, restoreVars>>

\* sanitizeText applied to each of two texts and once more to the two results
\* put together, the two texts being text cut at cut
SanitizeParts ==
    /\ textPc = "out"
    /\ \E cut \in 0..Len(text) :
         LET a == SubSeq(text, 1, cut)
             b == SubSeq(text, cut + 1, Len(text))
             parts == sanitizeText(a) \o sanitizeText(b)
         IN /\ a \in SanitizeInputs /\ b \in SanitizeInputs
            /\ redone' = [cut |-> cut, parts |-> parts, out |-> sanitizeText(parts)]
    /\ textPc' = "again"
    /\ UNCHANGED <<text, sanitized, settingsVars, funVars, repoVars, hookVars, restoreVars>>

SanitizeNext == Sanitize

\* the filter applied once, then to sanitized parts put together
ResanitizeNext == Sanitize \/ SanitizeParts

SpecResanitize == TextInit /\ [][ResanitizeNext]_vars

SpecSanitize == TextInit /\ [][SanitizeNext]_vars

\* C6: an input holding a match of a sensitive pattern is returned with the
\* placeholder in it and without any occurrence of a substring a pattern
\* matched in the input; an input without a match is returned unchanged.
C6_RedactionTotality ==
    textPc = "out" =>
        /\ HasSensitiveMatch(text) => Contains(sanitized, Placeholder)
        /\ \A k \in 1..NumPatterns : \A i \in 1..Len(text) :
              LET e == MatchPattern(k, text, i) IN
              e > i => ~Contains(sanitized, SubSeq(text, i, e - 1))
        /\ ~HasSensitiveMatch(text) => sanitized = text

\* a key/value secret and a base64 run were both present and redacted
C6_Witness ==
    /\ textPc = "out"
    /\ \E i \in 1..Len(text) : MatchKeyValue(text, i) > i
    /\ \E i \in 1..Len(text) : MatchBase64(text, i) > i /\ MatchKeyValue(text, i) = 0
    /\ sanitized # text
    /\ Contains(sanitized, Placeholder)

(***************************************************************************)
(* Properties of the existence check                                       *)
(***************************************************************************)
\* C11: a hook invocation goes on to extraction and add, and the restore
\* command goes on to its add, only for a commit that has no record under the
\* ref: whatever record is there, the existence check finds it.
C11_ExistingRecordIsDetected ==
    [][/\ \A p \in Procs :
            (pc[p] = "start" /\ pc'[p] = "attach") =>
                RecordOf(store, HookRef, commitHash'[p]) = NoNote
       /\ (rsPc = "loop" /\ rsPc' = "add") =>
                RecordOf(store, CmdRef, rsCur') = NoNote]_vars

(***************************************************************************)
(* Properties of the backup                                                *)
(***************************************************************************)
\* C12: whatever `git notes list` gives, BackupAllNotes returns a backup: of
\* no notes when the listing failed, else of exactly the commits whose record
\* decodes as a note, each with the note the store holds; and the backup
\* command changes no note.
C12_BackupIsDecodableSnapshot ==
    /\ [](\A up, junk \in BOOLEAN :
            LET b == BackupAllNotes(store, CmdRef,
                                    GitNotesListOutput(store, CmdRef, up, junk))
            IN /\ b.readable
               /\ DOMAIN b.Notes =
                     IF up THEN { id \in Objects : IsNote(store[CmdRef][id]) } ELSE {}
               /\ \A id \in DOMAIN b.Notes : b.Notes[id] = store[CmdRef][id])
    /\ [][(fresh' /\ ~fresh) =>
            /\ store' = store
            /\ \E up, junk \in BOOLEAN :
                 backup' = BackupAllNotes(store, CmdRef,
                                          GitNotesListOutput(store, CmdRef, up, junk))]_vars

\* the backup command ran on a store with a note that decodes and one that
\* does not: the file holds the first only
C12_Witness ==
    /\ fresh
    /\ storeAtBackup[CmdRef][<<"c","1">>] = Garbage
    /\ DOMAIN backup.Notes = {<<"c","2">>}
    /\ backup.Notes[<<"c","2">>] = storeAtBackup[CmdRef][<<"c","2">>]
    /\ store = storeAtBackup

(***************************************************************************)
(* Extraction and excerpt on their own: ExtractContextSince on a transcript *)
(* directory, then CreateExcerpt on its result, as processGitCommit chains *)
(* them.                                                                   *)
(***************************************************************************)
\* lines a transcript may hold: three records of session s1 ten seconds
\* apart, uses of another tool and of a tool without name, a record of
\* another session, a record without session id and timestamp, a line that
\* is not JSON
TrEntries ==
    { Entry("s1", 100, "user", <<>>, <<"a">>),
      Entry("s1", 110, "assistant", <<>>, <<"b">>),
      Entry("s1", 120, "tool_use", BashTool, <<"c">>),
      Entry("s1", 120, "tool_use", <<"W">>, <<"f">>),
      Entry("s1", 110, "tool_use", <<>>, <<"{","}">>),
      Entry("s1", 130, "tool_use", <<"R">>, <<"g">>),
      Entry("s2", 105, "user", <<>>, <<"d">>),
      Entry("", ZeroTime, "user", <<>>, <<"e">>),
      InvalidEntry }

\* longest transcript of the triggering session
MaxEntries == 2

RECURSIVE EntrySeqs(_)
EntrySeqs(n) ==
    IF n = 0 THEN {<<>>}
    ELSE LET shorter == EntrySeqs(n - 1) IN
         shorter \cup {<<e>> \o t : e \in TrEntries, t \in {x \in shorter : Len(x) = n - 1}}

\* the other file of the directory: an empty or one-line transcript, a file
\* that is not a transcript, a transcript that cannot be read
SecondFiles ==
    { TranscriptFile(TRUE, "ok", <<>>) }
    \cup { TranscriptFile(TRUE, "ok", <<e>>) : e \in TrEntries }
    \cup { TranscriptFile(FALSE, "ok", <<e>>) : e \in {x \in TrEntries : x.kind = "assistant"} }
    \cup { TranscriptFile(TRUE, "noread", <<e>>) : e \in {x \in TrEntries : x.kind = "assistant"} }

\* directories: the triggering session's transcript first; os.ReadDir works
\* or fails; the transcript itself may fail to read
TrDirs ==
    { [dirOk |-> ok, files |-> <<TranscriptFile(TRUE, "ok", es), f>>] :
        ok \in BOOLEAN, es \in EntrySeqs(MaxEntries), f \in SecondFiles }
    \cup { [dirOk |-> FALSE,
            files |-> <<TranscriptFile(TRUE, "noread", <<>>), TranscriptFile(TRUE, "ok", <<>>)>>] }

\* the cutoffs: none, at the first record, at the second, between the second
\* and the third
Cutoffs == {ZeroTime, 100, 110, 115}

\* configurations of the extractor: none, or .claude/notes.json with a
\* max_excerpt_length
TrConfigs ==
    {NilConfig} \cup { LoadNotesConfig(ConfigObject(TRUE, n, "")) : n \in {1, 2, 3, 20} }

TranscriptInit ==
    /\ trDir \in TrDirs
    /\ trSession = ""
    /\ trSince = ZeroTime
    /\ trGot = [err |-> FALSE, ctx |-> EmptyContext]
    /\ trCfg = NilConfig
    /\ trOut = [panic |-> FALSE, text |-> <<>>]
    /\ trTools = <<>>
    /\ trPc = "input"
    /\ PsOff
    /\ StdinOff
    /\ TextOff
    /\ HookOff
    /\ RestoreOff

\* extractor.ExtractContextSince(input.TranscriptPath, input.SessionID, since)
Extract ==
    /\ trPc = "input"
    /\ \E sid \in {"", "s1"}, since \in Cutoffs :
         /\ trSession' = sid
         /\ trSince' = since
         /\ trGot' = ExtractContextSince(trDir, 1, sid, since)
    /\ trPc' = "extracted"
    /\ UNCHANGED <<trDir, trCfg, trOut, trTools, psIn, psOut, psPc>>
    /\ UNCHANGED <<textVars, repoVars, hookVars, restoreVars, stdinVars>>

\* extractor.CreateExcerpt(context), the extractor being built with trCfg,
\* then the tools-used loop
CompileExcerpt ==
    /\ trPc = "extracted"
    /\ ~trGot.err
    /\ \E cfg \in TrConfigs :
         /\ trCfg' = cfg
         /\ trOut' \in CreateExcerpt(cfg, trGot.ctx)
    /\ trTools' = IF trOut'.panic THEN <<>>
                  ELSE CollectTools(trGot.ctx.ToolInteractions, <<BashTool>>)
    /\ trPc' = "compiled"
    /\ UNCHANGED <<trDir, trSession, trSince, trGot, psIn, psOut, psPc>>
    /\ UNCHANGED <<textVars, repoVars, hookVars, restoreVars, stdinVars>>

TranscriptNext == Extract \/ CompileExcerpt

SpecTranscript == TranscriptInit /\ [][TranscriptNext]_vars

\* the lines of the directory's files that ExtractContextSince reads: those
\* of every readable transcript, or of the triggering one when the directory
\* cannot be listed
RECURSIVE LinesRead(_)
LinesRead(files) ==
    IF files = <<>> THEN <<>>
    ELSE (IF files[1].jsonl /\ files[1].access = "ok" THEN files[1].entries ELSE <<>>)
         \o LinesRead(Tail(files))

\* the timestamps of events, in order
Times(events) == [i \in 1..Len(events) |-> events[i].Timestamp]

\* C13: with a cutoff, extraction from one transcript and from a directory
\* keeps a record if and only if its timestamp is missing or unparseable, or
\* the cutoff is the zero instant, or the timestamp is not before the cutoff:
\* its events are those of the extraction without cutoff that satisfy this,
\* in the same order.  Records 0, 10 and 20 seconds after the first give the
\* last one alone with the cutoff at 15 seconds and all three with no cutoff
\* or the cutoff at the first.
C13_CutoffKeepsExactly ==
    (trPc \in {"extracted", "compiled"} /\ ~trGot.err) =>
        LET all == ExtractContextSince(trDir, 1, trSession, ZeroTime).ctx.Events
            kept(ev) == \/ ev.Timestamp = ZeroTime
                        \/ trSince = ZeroTime
                        \/ ~(ev.Timestamp < trSince)
        IN /\ trGot.ctx.Events = SelectSeq(all, kept)
           /\ Times(all) = <<100, 110, 120>> =>
                /\ trSince = 115 => Times(trGot.ctx.Events) = <<120>>
                /\ trSince \in {ZeroTime, 100} => Times(trGot.ctx.Events) = <<100, 110, 120>>

\* the three records spread over two files, cut between the second and third
C13_Witness ==
    /\ trPc = "extracted"
    /\ trDir.dirOk
    /\ Times(ExtractContextSince(trDir, 1, trSession, ZeroTime).ctx.Events) = <<100, 110, 120>>
    /\ trSince = 115
    /\ Times(trGot.ctx.Events) = <<120>>


\* the instant of the invocation: no record of a transcript is later
Now == CHOOSE t \in { e.timestamp : e \in TrEntries } : \A e \in TrEntries : e.timestamp <= t

\* the events carrying a timestamp
Timed(events) == SelectSeq(events, LAMBDA ev : ev.Timestamp # ZeroTime)

\* C14: the events selected for one commit are exactly those whose timestamp
\* t satisfies since < t <= now: an event timestamped exactly at since is not
\* selected, an event timestamped at now is.
C14_WindowIsHalfOpen ==
    (trPc \in {"extracted", "compiled"} /\ ~trGot.err) =>
        LET all == ExtractContextSince(trDir, 1, trSession, ZeroTime).ctx.Events
            inWindow(ev) == trSince < ev.Timestamp /\ ev.Timestamp <= Now
        IN Timed(trGot.ctx.Events) = SelectSeq(Timed(all), inWindow)


\* the records ExtractContextSince read
RecordsRead ==
    LinesRead(IF trDir.dirOk THEN trDir.files ELSE SubSeq(trDir.files, 1, 1))

\* C15: extraction with a non-empty session filter returns no event of a
\* record carrying a different non-empty session id, whichever file of the
\* directory the record is in, and keeps the records without session id (the
\* records of the model are told apart by their content).
C15_OnlyRequestedSession ==
    (trPc \in {"extracted", "compiled"} /\ ~trGot.err /\ trSession # "") =>
        LET events == trGot.ctx.Events
            read == RecordsRead
        IN /\ \A i \in 1..Len(events) : \A j \in 1..Len(read) :
                (read[j].valid /\ read[j].content = events[i].Content)
                    => read[j].sessionId \in {"", trSession}
           /\ \A j \in 1..Len(read) :
                (read[j].valid /\ read[j].sessionId = "" /\ read[j].kind = "user")
                    => \E i \in 1..Len(events) : events[i].Content = read[j].content


\* first index at which sub occurs in s, 0 if it does not occur
FirstIndex(s, sub) ==
    IF Contains(s, sub)
    THEN CHOOSE i \in 1..(Len(s) + 1) :
            HasPrefixAt(s, i, sub) /\ \A k \in 1..(i - 1) : ~HasPrefixAt(s, k, sub)
    ELSE 0

\* the orders a sequence can be put in
Orders(events) ==
    LET n == Len(events) IN
    { [i \in 1..n |-> events[f[i]]] :
        f \in { g \in [1..n -> 1..n] : \A i, j \in 1..n : i # j => g[i] # g[j] } }

BlankLine == <<"\n", "\n">>

\* C16: in the compiled excerpt the renderings of the events are in
\* chronological order, whatever their order in the input and whatever file
\* each came from: the excerpt is the renderings of the events in one order,
\* joined by one blank line (and cut at the cap), and in an excerpt that was
\* not cut the rendering of an event with the earlier timestamp ends before
\* the blank line that precedes the rendering of one with the later timestamp.
C16_ExcerptIsChronological ==
    (trPc = "compiled" /\ ~trOut.panic) =>
        LET events == trGot.ctx.Events
            max == MaxExcerptLengthOf(trCfg)
            line(ev) == RenderEvent(trCfg, ev)
            whole(order) == Join([i \in 1..Len(order) |-> line(order[i])], BlankLine)
        IN /\ \E order \in Orders(events) :
                trOut.text = IF Len(whole(order)) > max
                             THEN SubSeq(whole(order), 1, max - Len(Ellipsis)) \o Ellipsis
                             ELSE whole(order)
           /\ (\A order \in Orders(events) : Len(whole(order)) <= max) =>
                \A i, j \in 1..Len(events) :
                    events[i].Timestamp < events[j].Timestamp =>
                        /\ FirstIndex(trOut.text, line(events[i])) > 0
                        /\ FirstIndex(trOut.text, line(events[i])) + Len(line(events[i]))
                              + Len(BlankLine) <= FirstIndex(trOut.text, line(events[j]))

\* three events of two files, the latest first in the input, compiled whole
C16_Witness ==
    /\ trPc = "compiled"
    /\ ~trOut.panic
    /\ trDir.dirOk
    /\ Times(trGot.ctx.Events) = <<120, 110, 100>>
    /\ trOut.text = Join(<<RenderEvent(trCfg, trGot.ctx.Events[3]),
                           RenderEvent(trCfg, trGot.ctx.Events[2]),
                           RenderEvent(trCfg, trGot.ctx.Events[1])>>, BlankLine)


\* the events in chronological order with ties left in their input order
StableOrder(events) ==
    LET n == Len(events)
        before(i, j) == \/ events[i].Timestamp < events[j].Timestamp
                        \/ events[i].Timestamp = events[j].Timestamp /\ i < j
        rank(i) == Cardinality({ k \in 1..n : before(k, i) }) + 1
    IN [r \in 1..n |-> events[CHOOSE i \in 1..n : rank(i) = r]]

\* C26: events with equal or absent timestamps keep the order in which they
\* were parsed: the excerpt is the rendering of the events sorted by
\* timestamp with ties in input order, whichever run compiled it.
C26_EqualTimestampsKeepParseOrder ==
    (trPc = "compiled" /\ ~trOut.panic) =>
        LET order == StableOrder(trGot.ctx.Events)
            max == MaxExcerptLengthOf(trCfg)
            whole == Join([i \in 1..Len(order) |-> RenderEvent(trCfg, order[i])], BlankLine)
        IN trOut.text = IF Len(whole) > max
                        THEN SubSeq(whole, 1, max - Len(Ellipsis)) \o Ellipsis
                        ELSE whole

\* the directory with its files in the other order
Reordered(dir) == [dir EXCEPT !.files = <<dir.files[2], dir.files[1]>>]

\* C27: the order in which the files of the directory are read does not
\* change the result: read in the other order, the same files give the same
\* excerpt and the same tools-used list.
C27_FileOrderDoesNotMatter ==
    (trPc = "compiled" /\ ~trOut.panic /\ trDir.dirOk) =>
        LET other == ExtractContextSince(Reordered(trDir), 1, trSession, trSince) IN
        /\ ~other.err
        /\ trOut \in CreateExcerpt(trCfg, other.ctx)
        /\ trTools = CollectTools(other.ctx.ToolInteractions, <<BashTool>>)

\* C17: for every event sequence and every configured cap N > 0 the compiler
\* returns, without failing, a string of at most N bytes; when the rendering
\* is longer than N the result ends with "..."; the empty sequence gives the
\* empty string.
C17_ExcerptWithinCap ==
    trPc = "compiled" =>
        LET events == trGot.ctx.Events
            max == MaxExcerptLengthOf(trCfg)
            whole(order) == Join(RenderAll(trCfg, order), BlankLine)
        IN /\ ~trOut.panic
           /\ Len(trOut.text) <= max
           /\ (\A order \in Orders(events) : Len(whole(order)) > max) =>
                /\ Len(trOut.text) >= Len(Ellipsis)
                /\ SubSeq(trOut.text, Len(trOut.text) - Len(Ellipsis) + 1, Len(trOut.text)) = Ellipsis
           /\ events = <<>> => trOut.text = <<>>


\* the names of the tools of the aggregated interactions, in order
ToolNames == [i \in 1..Len(trGot.ctx.ToolInteractions) |-> trGot.ctx.ToolInteractions[i].Tool]

\* C22: tools-used starts with the triggering tool "Bash", holds no name
\* twice and no empty name, and otherwise holds exactly the distinct
\* non-empty tool names of the aggregated interactions, in the order of
\* their first occurrence.
C22_ToolsUsedDistinctInOrder ==
    (trPc = "compiled" /\ ~trOut.panic) =>
        LET names == ToolNames
            n == Len(trTools)
            firstAt(t) == CHOOSE i \in 1..Len(names) :
                            names[i] = t /\ \A k \in 1..(i - 1) : names[k] # t
        IN /\ n >= 1
           /\ trTools[1] = BashTool
           /\ \A i, j \in 1..n : i # j => trTools[i] # trTools[j]
           /\ \A i \in 1..n : trTools[i] # <<>>
           /\ { trTools[i] : i \in 1..n } =
                {BashTool} \cup { names[i] : i \in { k \in 1..Len(names) : names[k] # <<>> } }
           /\ \A i, j \in 2..n : i < j => firstAt(trTools[i]) < firstAt(trTools[j])

\* interactions with a tool without name and with one tool twice: two names
C22_Witness ==
    /\ trPc = "compiled"
    /\ ~trOut.panic
    /\ \E i \in 1..Len(ToolNames) : ToolNames[i] = <<>>
    /\ \E i, j \in 1..Len(ToolNames) : i # j /\ ToolNames[i] = ToolNames[j] /\ ToolNames[i] # <<>>
    /\ Len(trTools) = 2

(***************************************************************************)
(* The parsers on their own: notes.ExtractCommitHashFromOutput on the      *)
(* output of a git command, config.LoadNotesConfig on .claude/notes.json   *)
(***************************************************************************)
\* lines git prints: a commit on a branch, the first commit of a repository,
\* a commit on a detached HEAD, a line of `git log`, a bracket without a
\* hash, other text
OutputLines ==
    { OutCommit(<<"c","1">>),
      OutRootCommit,
      <<"[","d"," ","H"," ","c","1","]"," ","x">>,
      OutLogForm,
      <<" ","[","m","]">>,
      OutNothing }

\* most lines of one output
MaxLines == 2

RECURSIVE LineSeqs(_)
LineSeqs(n) ==
    IF n = 0 THEN {<<>>}
    ELSE LET shorter == LineSeqs(n - 1) IN
         shorter \cup {<<l>> \o t : l \in OutputLines, t \in {x \in shorter : Len(x) = n - 1}}

GitOutputs == { [kind |-> "output", text |-> Join(ls, <<"\n">>)] : ls \in LineSeqs(MaxLines) }

\* .claude/notes.json: absent, not JSON, or an object setting some of the keys
ParsedConfigFiles ==
    {MissingConfig, MalformedConfig}
    \cup { ConfigObjectWith(keys, enabled, maxLen, maxPrompts, ref) :
             keys \in SUBSET {"enabled", "max_excerpt_length", "max_prompts", "notes_ref"},
             enabled \in BOOLEAN, maxLen \in {-1, 0, 7}, maxPrompts \in {-1, 0, 3},
             ref \in {"", CustomRef} }

\* commits on the branch before the one just made, oldest first, each with
\* its commit time and the session that made it ("" for a commit made by hand)
PastCommits ==
    { [time |-> 210, session |-> "s1"],
      [time |-> 300, session |-> "s2"],
      [time |-> 400, session |-> ""] }

\* most commits before the one just made
MaxCommits == 2

RECURSIVE CommitSeqs(_)
CommitSeqs(n) ==
    IF n = 0 THEN {<<>>}
    ELSE LET shorter == CommitSeqs(n - 1) IN
         shorter \cup {Append(t, c) : c \in PastCommits, t \in {x \in shorter : Len(x) = n - 1}}

\* the branch and whether `git log` can be run
Histories ==
    { [kind |-> "history", commits |-> cs, gitOk |-> ok] :
        cs \in CommitSeqs(MaxCommits), ok \in BOOLEAN }

\* `git log -1 --format=%cI HEAD~1`: the commit time of the parent of HEAD,
\* ZeroTime when the command fails (no parent, no git)
GitLogParent(history) ==
    IF history.gitOk /\ history.commits # <<>>
    THEN history.commits[Len(history.commits)].time
    ELSE ZeroTime

ParseInit ==
    /\ psIn \in GitOutputs \cup ParsedConfigFiles \cup Histories
    /\ psOut = [kind |-> "none"]
    /\ psPc = "input"
    /\ TrOff
    /\ StdinOff
    /\ TextOff
    /\ HookOff
    /\ RestoreOff

\* notes.ExtractCommitHashFromOutput(gitOutput)
ExtractHash ==
    /\ psPc = "input"
    /\ psIn.kind = "output"
    /\ psOut' = [kind |-> "hash", hash |-> ExtractCommitHashFromOutput(psIn.text)]
    /\ psPc' = "hash"
    /\ UNCHANGED <<psIn, trDir, trSession, trSince, trGot, trCfg, trOut, trTools, trPc>>
    /\ UNCHANGED <<textVars, repoVars, hookVars, restoreVars, stdinVars>>

\* config.LoadNotesConfig(projectDir)
LoadConfig ==
    /\ psPc = "input"
    /\ psIn.kind \in {"missing", "malformed", "object"}
    /\ psOut' = [kind |-> "config", cfg |-> LoadNotesConfig(psIn)]
    /\ psPc' = "config"
    /\ UNCHANGED <<psIn, trDir, trSession, trSince, trGot, trCfg, trOut, trTools, trPc>>
    /\ UNCHANGED <<textVars, repoVars, hookVars, restoreVars, stdinVars>>

\* getLastCommitTimeForSession(ctx, notesManager, input.SessionID)
LastCommitTime ==
    /\ psPc = "input"
    /\ psIn.kind = "history"
    /\ psOut' = [kind |-> "since", since |-> getLastCommitTimeForSession(GitLogParent(psIn))]
    /\ psPc' = "since"
    /\ UNCHANGED <<psIn, trDir, trSession, trSince, trGot, trCfg, trOut, trTools, trPc>>
    /\ UNCHANGED <<textVars, repoVars, hookVars, restoreVars, stdinVars>>

ParseNext == ExtractHash \/ LoadConfig \/ LastCommitTime

SpecParse == ParseInit /\ [][ParseNext]_vars

\* a trimmed line in the bracketed form "[branch ... hash] message", and the
\* hash it names: the last word inside the bracket
IsBracketed(line) ==
    /\ HasPrefix(line, <<"[">>)
    /\ Contains(line, <<"]">>)
    /\ Len(Split(TrimSpace(TrimPrefix(Split(line, "]")[1], <<"[">>)), " ")) > 1

HashOfBracket(line) ==
    LET words == Split(TrimSpace(TrimPrefix(Split(line, "]")[1], <<"[">>)), " ")
    IN words[Len(words)]

\* C18: the extraction returns the hash of the bracketed form whenever the
\* output holds one, the hash of the "commit <hash>" form only when it holds
\* no bracketed form, and the empty string when it holds neither; what it
\* returns from a bracket is the commit hash, never another word of it.
C18_HashOfBracketFirst ==
    psPc = "hash" =>
        LET raw == Split(psIn.text, "\n")
            lines == [i \in 1..Len(raw) |-> TrimSpace(raw[i])]
            brackets == { i \in 1..Len(lines) : IsBracketed(lines[i]) }
            logs == { i \in 1..Len(lines) : HasPrefix(lines[i], CommitLit) }
            first(S) == CHOOSE i \in S : \A j \in S : i <= j
        IN psOut.hash = IF brackets # {} THEN HashOfBracket(lines[first(brackets)])
                        ELSE IF logs # {} THEN Split(lines[first(logs)], " ")[2]
                        ELSE <<>>


\* C19: LoadNotesConfig gives every option the file does not set its
\* documented default (enabled true, max-excerpt-length 5000, max-prompts 2,
\* notes ref "claude-conversations"), gives all defaults for a missing or
\* malformed file, and always returns a non-empty notes ref and a positive
\* max-excerpt-length and max-prompts.
C19_UnsetOptionsGetDefaults ==
    psPc = "config" =>
        LET cfg == psOut.cfg IN
        /\ psIn.kind \in {"missing", "malformed"} => cfg = DefaultNotesConfig
        /\ psIn.kind = "object" =>
             /\ "enabled" \notin psIn.keys => cfg.Enabled = TRUE
             /\ "max_excerpt_length" \notin psIn.keys
                    => cfg.MaxExcerptLength = DefaultMaxExcerptLength
             /\ "max_prompts" \notin psIn.keys => cfg.MaxPrompts = DefaultMaxPrompts
             /\ "notes_ref" \notin psIn.keys => cfg.NotesRef = DefaultRef
        /\ cfg.NotesRef # ""
        /\ cfg.MaxExcerptLength > 0
        /\ cfg.MaxPrompts > 0


(***************************************************************************)
(* Standard input of one hook invocation: readStdinWithTimeout starts a    *)
(* goroutine that reads stdin to its end and sends the result on a         *)
(* buffered channel; runHook selects on that channel and on a timer that   *)
(* starts when the select is entered.                                      *)
(***************************************************************************)
\* most writes the caller needs for one event
MaxChunks == 2

\* what the caller is going to write: an event as JSON, bytes that are not
\* JSON, or nothing; in how many writes
StdinContents ==
    { [bytes |-> "json", event |-> e, chunks |-> n] : e \in HookEvents, n \in 1..MaxChunks }
    \cup { [bytes |-> "malformed", event |-> NoInput, chunks |-> n] : n \in 1..MaxChunks }
    \cup { [bytes |-> "empty", event |-> NoInput, chunks |-> 0] }

StdinInit ==
    /\ stdinData \in StdinContents
    /\ stdinSent = 0
    /\ stdinEnd = "open"
    /\ rdCh = "empty"
    /\ rdPc = "spawned"
    /\ store \in InitStores
    /\ configFile \in ConfigFiles
    /\ pc = [p \in Procs |-> IF p = HookProc THEN "start" ELSE "off"]
    /\ hookIn = [p \in Procs |-> NoInput]
    /\ decision = [p \in Procs |-> "none"]
    /\ commitHash = [p \in Procs |-> NoHash]
    /\ outcome = [p \in Procs |-> ""]
    /\ issued = [p \in Procs |-> <<>>]
    /\ TrOff
    /\ PsOff
    /\ TextOff
    /\ RestoreOff

StdinIdle == UNCHANGED <<textVars, repoVars, hookVars, restoreVars, trDir, trSession, trSince,
                         trGot, trCfg, trOut, trTools, trPc, psIn, psOut, psPc>>

\* the caller writes the next part of the event
WriteChunk ==
    /\ stdinEnd = "open"
    /\ stdinSent < stdinData.chunks
    /\ stdinSent' = stdinSent + 1
    /\ UNCHANGED <<stdinData, stdinEnd, rdCh, rdPc>>
    /\ StdinIdle

\* the caller closes the pipe after the last part
CloseStdin ==
    /\ stdinEnd = "open"
    /\ stdinSent = stdinData.chunks
    /\ stdinEnd' = "eof"
    /\ UNCHANGED <<stdinData, stdinSent, rdCh, rdPc>>
    /\ StdinIdle

\* reading the pipe fails
BreakStdin ==
    /\ stdinEnd = "open"
    /\ stdinEnd' = "broken"
    /\ UNCHANGED <<stdinData, stdinSent, rdCh, rdPc>>
    /\ StdinIdle

\* the goroutine: io.ReadAll returns at the end of the input or at an error,
\* and the result is sent; the goroutine is gone once the process has exited
ReadAll ==
    /\ stdinEnd \in {"eof", "broken"}
    /\ rdCh = "empty"
    /\ rdPc # "returned"
    /\ rdCh' = "full"
    /\ UNCHANGED <<stdinData, stdinSent, stdinEnd, rdPc>>
    /\ StdinIdle

\* runHook enters the select: time.After(timeout) starts the timer
EnterSelect ==
    /\ rdPc = "spawned"
    /\ rdPc' = "waiting"
    /\ UNCHANGED <<stdinData, stdinSent, stdinEnd, rdCh>>
    /\ StdinIdle

\* a timeout that goes on with what has arrived so far
HookTimeoutGoesOn ==
    /\ rdPc = "waiting"
    /\ rdCh = "empty"
    /\ rdPc' = "returned"
    /\ IF stdinData.bytes = "json" /\ stdinSent > 0
       THEN ProcessEvent(HookProc, stdinData.event)
       ELSE FailRead(HookProc, "timeout")
    /\ UNCHANGED <<stdinData, stdinSent, stdinEnd, rdCh>>
    /\ UNCHANGED <<textVars, repoVars, restoreVars, trDir, trSession, trSince,
                   trGot, trCfg, trOut, trTools, trPc, psIn, psOut, psPc>>

\* the timer expires while the channel is empty: readStdinWithTimeout returns
\* the timeout error, runHook returns it
HookTimeout ==
    /\ rdPc = "waiting"
    /\ rdCh = "empty"
    /\ rdPc' = "returned"
    /\ FailRead(HookProc, "timeout")
    /\ UNCHANGED <<stdinData, stdinSent, stdinEnd, rdCh>>
    /\ UNCHANGED <<textVars, repoVars, restoreVars, trDir, trSession, trSince,
                   trGot, trCfg, trOut, trTools, trPc, psIn, psOut, psPc>>

\* the select receives the result: runHook checks the error and the length,
\* decodes the event and goes on to the existence check
HookGotInput ==
    /\ rdPc = "waiting"
    /\ rdCh = "full"
    /\ rdPc' = "returned"
    /\ rdCh' = "taken"
    /\ CASE stdinEnd = "broken" -> FailRead(HookProc, "readerr")
         [] stdinEnd # "broken" /\ stdinData.bytes = "empty" -> FailRead(HookProc, "empty")
         [] stdinEnd # "broken" /\ stdinData.bytes = "malformed" -> FailRead(HookProc, "malformed")
         [] OTHER -> ProcessEvent(HookProc, stdinData.event)
    /\ UNCHANGED <<stdinData, stdinSent, stdinEnd>>
    /\ UNCHANGED <<textVars, repoVars, restoreVars, trDir, trSession, trSince,
                   trGot, trCfg, trOut, trTools, trPc, psIn, psOut, psPc>>

StdinNext ==
    \/ WriteChunk
    \/ CloseStdin
    \/ BreakStdin
    \/ ReadAll
    \/ EnterSelect
    \/ HookTimeout
    \/ HookGotInput
    \/ AttachNote(HookProc)

SpecStdin == StdinInit /\ [][StdinNext]_vars

\* C21: when the timeout expires before the event has been read to its end,
\* the invocation fails with an error and has done nothing: no decision, no
\* read of or write to the store, nothing from the transcripts; when the read
\* completes first, the timeout no longer applies and the data is handed to
\* the processing once.
C21_TimeoutMeansNoProcessing ==
    /\ [](outcome[HookProc] = "timeout" =>
            /\ pc[HookProc] = "error"
            /\ decision[HookProc] = "none"
            /\ issued[HookProc] = <<>>
            /\ rdCh = "empty")
    /\ [][(rdPc = "waiting" /\ rdPc' = "returned" /\ rdCh = "empty") =>
            /\ outcome'[HookProc] = "timeout"
            /\ store' = store]_vars
    /\ []((decision[HookProc] # "none" \/ issued[HookProc] # <<>>) =>
            rdCh = "taken" /\ stdinEnd = "eof" /\ stdinSent = stdinData.chunks)
    /\ [][(rdCh = "full" /\ rdPc' = "returned") =>
            /\ rdCh' = "taken"
            /\ outcome'[HookProc] # "timeout"
            /\ pc'[HookProc] # "start"]_vars
    /\ [][(rdCh = "taken") =>
            /\ rdCh' = "taken"
            /\ Len(SelectSeq(issued'[HookProc], LAMBDA op : op = "show")) <= 1]_vars

\* the timeout expired after a part of the event was written
C21_Witness ==
    /\ outcome[HookProc] = "timeout"
    /\ stdinData.bytes = "json"
    /\ stdinSent > 0
    /\ stdinSent < stdinData.chunks


\* the session of the invocations
HookSession == "s1"

\* C23: the window start is the commit time of the previous commit made in
\* the same session minus the buffer of 60 seconds, and the zero instant when
\* the session has no previous commit or the repository cannot be queried.
C23_SinceIsPreviousCommitOfSession ==
    psPc = "since" =>
        LET cs == psIn.commits
            own == { i \in 1..Len(cs) : cs[i].session = HookSession }
            last == CHOOSE i \in own : \A j \in own : j <= i
        IN psOut.since = IF psIn.gitOk /\ own # {}
                         THEN cs[last].time - SinceBuffer
                         ELSE ZeroTime


(***************************************************************************)
(* Installing and removing the hook in the settings file                   *)
(***************************************************************************)

\* event names InstallHooksToPath registers the binary under (eventMap)
eventMap ==
    {"PreToolUse", "PostToolUse", "UserPromptSubmit", "Stop", "SubagentStop",
     "Notification", "PreCompact"}

\* keys the hooks map of a settings file can hold: those and one of another tool
EventKeys == eventMap \cup {"SessionStart"}

BinaryPath == "cnotes"
OtherCommand == "other"

HookAction(type, command, timeout) ==
    [Type |-> type, Command |-> command, Timeout |-> timeout]

HookDefinition(matcher, hooks) == [Matcher |-> matcher, Hooks |-> hooks]

\* an event's entry of the hooks map: absent, or its list of definitions
NoEntry == [present |-> FALSE, defs |-> <<>>]
EntryOf(defs) == [present |-> TRUE, defs |-> defs]

\* lists of definitions found under an event before any command is run
DefLists ==
    { <<>>,
      <<HookDefinition("Bash", <<>>)>>,
      <<HookDefinition(".*", <<HookAction("command", OtherCommand, 0)>>)>>,
      <<HookDefinition(".*", <<HookAction("command", BinaryPath, 30)>>)>>,
      <<HookDefinition("Bash", <<HookAction("command", OtherCommand, 5),
                                 HookAction("script", BinaryPath, 30)>>)>>,
      <<HookDefinition("Bash", <<HookAction("command", OtherCommand, 0)>>),
        HookDefinition(".*", <<HookAction("command", BinaryPath, 0)>>),
        HookDefinition("Edit", <<HookAction("command", OtherCommand, 0)>>)>>,
      <<HookDefinition(".*", <<HookAction("command", BinaryPath, 30),
                               HookAction("command", BinaryPath, 0)>>)>> }

\* a decoded settings file: the hooks map (nil when the file has no "hooks")
\* and whether the file holds keys other than "hooks", which Settings does
\* not declare
SettingsOf(hasHooks, hooks, others) ==
    [kind |-> "json", hasHooks |-> hasHooks, hooks |-> hooks, others |-> others]

NoHooks == [e \in EventKeys |-> NoEntry]

SettingsFiles ==
    { [kind |-> "missing"], [kind |-> "malformed"],
      SettingsOf(FALSE, NoHooks, TRUE) }
    \cup { SettingsOf(TRUE, [NoHooks EXCEPT !["PostToolUse"] = post, !["SessionStart"] = start], others) :
             post \in {NoEntry} \cup {EntryOf(d) : d \in DefLists},
             start \in {NoEntry, EntryOf(<<HookDefinition(".*", <<HookAction("command", BinaryPath, 0)>>)>>),
                        EntryOf(<<HookDefinition(".*", <<HookAction("command", OtherCommand, 0)>>)>>)},
             others \in BOOLEAN }

\* LoadSettings: a missing file is the empty Settings, an unreadable one an
\* error; only "hooks" is decoded
LoadSettings(file) ==
    CASE file.kind = "missing" -> [err |-> FALSE, hasHooks |-> FALSE, hooks |-> NoHooks]
      [] file.kind = "malformed" -> [err |-> TRUE, hasHooks |-> FALSE, hooks |-> NoHooks]
      [] OTHER -> [err |-> FALSE, hasHooks |-> file.hasHooks,
                   hooks |-> IF file.hasHooks THEN file.hooks ELSE NoHooks]

\* SaveSettings: the file becomes the encoding of the Settings value
SaveSettings(hasHooks, hooks) == SettingsOf(hasHooks, hooks, FALSE)

\* positions <<i, j>> of the actions of defs whose command is binaryPath
ActionsOf(defs, binaryPath) ==
    { <<i, j>> \in (1..Len(defs)) \X (1..2) :
        j <= Len(defs[i].Hooks) /\ defs[i].Hooks[j].Command = binaryPath }

\* the loop body of InstallHooksToPath for one event, which adds a definition
\* whether or not the binary is there already
InstallAppends(entry, binaryPath) ==
    EntryOf(Append(entry.defs,
                   HookDefinition(".*", <<HookAction("command", binaryPath, 0)>>)))

\* the loop body of InstallHooksToPath for one event: the first action of the
\* binary is overwritten, and without one a definition is appended
InstallEvent(entry, binaryPath) ==
    LET defs == entry.defs
        hookAction == HookAction("command", binaryPath, 0)
        hits == ActionsOf(defs, binaryPath)
        first == CHOOSE h \in hits :
                    \A g \in hits : h[1] < g[1] \/ (h[1] = g[1] /\ h[2] <= g[2])
    IN IF hits = {}
       THEN EntryOf(Append(defs, HookDefinition(".*", <<hookAction>>)))
       ELSE EntryOf([defs EXCEPT ![first[1]].Hooks[first[2]] = hookAction])

InstallHooksToPath(file, binaryPath) ==
    LET loaded == LoadSettings(file) IN
    IF loaded.err THEN file
    ELSE SaveSettings(TRUE, [e \in EventKeys |->
                                IF e \in eventMap
                                THEN InstallEvent(loaded.hooks[e], binaryPath)
                                ELSE loaded.hooks[e]])

\* the loop body of UninstallHooksFromPath for one event
UninstallEvent(entry, binaryPath) ==
    LET strip(def) == [def EXCEPT !.Hooks =
                          SelectSeq(def.Hooks, LAMBDA a : a.Command # binaryPath)]
        stripped == [i \in 1..Len(entry.defs) |-> strip(entry.defs[i])]
        newDefs == SelectSeq(stripped, LAMBDA def : Len(def.Hooks) > 0)
    IN IF entry.present /\ Len(newDefs) > 0 THEN EntryOf(newDefs) ELSE NoEntry

UninstallHooksFromPath(file, binaryPath) ==
    LET loaded == LoadSettings(file) IN
    IF loaded.err \/ ~loaded.hasHooks THEN file
    ELSE SaveSettings(TRUE, [e \in EventKeys |-> UninstallEvent(loaded.hooks[e], binaryPath)])

\* most commands run on one settings file
MaxOps == 3

SettingsInit ==
    /\ settings \in SettingsFiles
    /\ lastOp = [op |-> "none", bin |-> "", after |-> "", n |-> 0]
    /\ text = <<>> /\ sanitized = <<>> /\ textPc = "off" /\ redone = NotRedone
    /\ HookOff
    /\ RestoreOff
    /\ FunOff

\* `cnotes install` run with the binary at path b
InstallHooks ==
    /\ lastOp.op # "off" /\ lastOp.n < MaxOps
    /\ \E b \in {BinaryPath, OtherCommand} :
        /\ settings' = InstallHooksToPath(settings, b)
        /\ lastOp' = [op |-> "install", bin |-> b, after |-> lastOp.op, n |-> lastOp.n + 1]
    /\ UNCHANGED <<text, sanitized, textPc, redone, funVars, repoVars, hookVars, restoreVars>>

\* `cnotes uninstall`
UninstallHooks ==
    /\ lastOp.op # "off" /\ lastOp.n < MaxOps
    /\ \E b \in {BinaryPath, OtherCommand} :
        /\ settings' = UninstallHooksFromPath(settings, b)
        /\ lastOp' = [op |-> "uninstall", bin |-> b, after |-> lastOp.op, n |-> lastOp.n + 1]
    /\ UNCHANGED <<text, sanitized, textPc, redone, funVars, repoVars, hookVars, restoreVars>>

SettingsNext == InstallHooks \/ UninstallHooks

SpecSettings == SettingsInit /\ [][SettingsNext]_vars

\* the actions under event e, each with the matcher of its definition, in order
RECURSIVE ActionsUnder(_)
ActionsUnder(defs) ==
    IF defs = <<>> THEN <<>>
    ELSE [i \in 1..Len(defs[1].Hooks) |-> [matcher |-> defs[1].Matcher, action |-> defs[1].Hooks[i]]]
         \o ActionsUnder(Tail(defs))

\* those of them whose command is not b
OthersUnder(file, e, b) ==
    IF file.kind = "json" /\ file.hasHooks
    THEN SelectSeq(ActionsUnder(file.hooks[e].defs), LAMBDA x : x.action.Command # b)
    ELSE <<>>

\* how many actions under e have command b
CountUnder(file, e, b) ==
    IF file.kind = "json" /\ file.hasHooks
    THEN Len(SelectSeq(ActionsUnder(file.hooks[e].defs), LAMBDA x : x.action.Command = b))
    ELSE 0

\* C25: installing a binary again changes nothing and adds no second action
\* for it under any event; installing keeps every action of another command
\* as it was and puts the binary under each of its events; uninstalling keeps
\* exactly the actions of other commands, in their order and under their
\* matchers, and leaves no definition without actions and no event without
\* definitions.
C25_InstallIdempotentUninstallExact ==
    /\ [][(lastOp.op = "install" /\ lastOp'.op = "install" /\ lastOp'.bin = lastOp.bin)
            => settings' = settings]_vars
    /\ [][lastOp'.op = "install" =>
            \A e \in EventKeys :
                /\ OthersUnder(settings', e, lastOp'.bin) = OthersUnder(settings, e, lastOp'.bin)
                /\ settings'.kind = "json" /\ e \in eventMap =>
                     /\ CountUnder(settings', e, lastOp'.bin) >= 1
                     /\ CountUnder(settings', e, lastOp'.bin)
                          = IF CountUnder(settings, e, lastOp'.bin) = 0 THEN 1
                            ELSE CountUnder(settings, e, lastOp'.bin)
                /\ e \notin eventMap =>
                     CountUnder(settings', e, lastOp'.bin) = CountUnder(settings, e, lastOp'.bin)]_vars
    /\ [][lastOp'.op = "uninstall" =>
            \A e \in EventKeys :
                /\ OthersUnder(settings', e, lastOp'.bin) = OthersUnder(settings, e, lastOp'.bin)
                /\ settings.kind = "json" /\ settings.hasHooks =>
                     /\ CountUnder(settings', e, lastOp'.bin) = 0
                     /\ settings'.hooks[e].present =>
                          /\ settings'.hooks[e].defs # <<>>
                          /\ \A i \in 1..Len(settings'.hooks[e].defs) :
                                settings'.hooks[e].defs[i].Hooks # <<>>]_vars

\* the binary was installed twice in a row into a file that held an action of
\* another command and an older action of the binary
C25_Witness ==
    /\ lastOp = [op |-> "install", bin |-> BinaryPath, after |-> "install", n |-> 2]
    /\ settings.kind = "json"
    /\ CountUnder(settings, "PostToolUse", BinaryPath) = 1
    /\ CountUnder(settings, "PostToolUse", OtherCommand) = 2
    /\ CountUnder(settings, "Stop", BinaryPath) = 1
    /\ CountUnder(settings, "Stop", OtherCommand) = 0


\* C28: sanitizing two sanitized texts put together changes nothing:
\* sanitize(sanitize(a) + sanitize(b)) = sanitize(a) + sanitize(b) for any
\* texts a and b, and with b empty sanitize(sanitize(a)) = sanitize(a).
C28_SanitizedPartsStaySanitized ==
    textPc = "again" => redone.out = redone.parts

====
